---- MODULE Spec2Model ----
(***************************************************************************)
(* Model of the shepherd service core: the policy engine                   *)
(* (shepherd-core/src/engine.rs), the session state machine                *)
(* (shepherd-core/src/session.rs), the orchestrator's event loop           *)
(* (shepherdd/src/main.rs), the part of the Linux host adapter the         *)
(* orchestrator drives (shepherd-host-linux/src/adapter.rs), the           *)
(* availability windows (shepherd-util/src/time.rs) and the client table   *)
(* and per-client tasks of the IPC server (shepherd-ipc/src/server.rs).    *)
(*                                                                         *)
(* Time is counted in whole seconds.  An Option<T> is a sequence of length *)
(* 0 (None) or 1 (Some); an Option<Duration> is None == -1 or a natural.   *)
(* The body of every select! branch of Service::run is one action: the     *)
(* loop awaits the handler before it polls again, so handlers never        *)
(* interleave with one another; the process monitor is a task of its own.  *)
(* LinuxHost::stop is also modelled step by step (stop_task), against the  *)
(* child and the monitor; store writes fail while store_fails holds.       *)
(***************************************************************************)
EXTENDS Integers, Sequences, FiniteSets, TLC

VARIABLES
    now_mono,         \* MonotonicInstant::now()
    now,              \* shepherd_util::now(), the wall clock
    current_session,  \* CoreEngine.current_session : Option<ActiveSession>
    usage,            \* store table usage(entry_id, day) -> duration_secs
    cooldowns,        \* store table cooldowns(entry_id) -> until
    processes,        \* LinuxHost.processes : pid -> child status
    session_info,     \* LinuxHost.session_info : set of session ids
    monitor_pending,  \* the monitor's local vector `exited`, collected but not yet sent
    host_events,      \* LinuxHost.event_tx/event_rx : queue of HostEvent
    next_id,          \* number of SessionId::new() / pids handed out so far
    balance,          \* ghost: #SessionStarted - #SessionEnded broadcast
    warned,           \* ghost: thresholds of the WarningIssued events of the newest session
    expire_due,       \* ghost: number of ExpireDue events of the newest session
    extended,         \* ghost: sum of the extensions granted to the newest session
    credits,          \* ghost: session id -> number of add_usage calls
    cooldown_writes,  \* ghost: session id -> number of set_cooldown_until calls
    stop_requested,   \* ghost: pids the supervisor was asked to stop
    stop_calls,       \* ghost: host.stop calls of the newest handler that stopped a handle
    shut_down,        \* Service::run has left its loop and logged ServiceStopped
    stop_task,        \* the call of LinuxHost::stop in progress: its position and locals
    store_fails,      \* the store is out of order: its writes return Err
    end_reason,       \* ghost: session id -> reason of its SessionEnded broadcast
    launched,         \* ghost: session id -> entry id of the approved launch
    fresh,            \* ghost: a tick has run at this instant on the session as it is
    last,             \* ghost: response to the last command, "" after any other step
    end_duration,     \* ghost: duration of the newest SessionEnded broadcast, None before it
    clients,          \* IpcServer.clients : client id -> ClientInfo.role
    next_client,      \* number of connections accepted so far
    peers,            \* client id -> the peer process: socket open, requests written
    ipc_messages,     \* IpcServer.message_tx/message_rx : queue of ServerMessage
    response_rx,      \* client id -> queue of its writer task's response channel
    roles,            \* ghost: client id -> role it was given at accept
    delivered,        \* ghost: client id -> responses written to its socket
    extend_granted,   \* ghost: client ids whose ExtendCurrent moved the deadline
    subscribed,       \* client id -> ClientHandle.subscribed
    event_rx,         \* client id -> its writer task's receiver of the broadcast channel
    rate_limiter,     \* RateLimiter.clients : client id -> token bucket
    events_written,   \* ghost: client id -> events written to its socket
    started_broadcast, \* ghost: session ids whose SessionStarted was broadcast
    audited           \* ghost: audit records appended by the newest handler run

vars == <<now_mono, now, current_session, usage, cooldowns, processes,
          session_info, monitor_pending, host_events, next_id, balance, warned, expire_due,
          extended, credits, cooldown_writes, stop_requested, stop_calls, shut_down, stop_task, store_fails, end_reason,
          launched, fresh, last, end_duration, clients, next_client, peers,
          ipc_messages, response_rx, roles, delivered, extend_granted, subscribed,
          event_rx, rate_limiter, events_written, started_broadcast, audited>>

ipcvars == <<clients, next_client, peers, ipc_messages, response_rx, roles,
             delivered, extend_granted, subscribed, event_rx, rate_limiter,
             events_written, started_broadcast>>

-----------------------------------------------------------------------------
(* Bounds *)

MaxMono == 4          \* horizon of the monotonic clock under Spec and WallSpec
MaxWall == 3          \* a wall-clock jump lands on one of 0..MaxWall
MaxSessions == 2      \* launches approved under Spec
WallSessions == 1     \* launches approved under WallSpec
ScenarioSessions == 1 \* launches approved under ScenarioSpec
FairSessions == 1     \* launches approved under FairSpec
FairMono == 3         \* horizon of the monotonic clock under FairSpec
MaxExtends == 1       \* extensions granted per session
MinuteLen == 2        \* wall-clock seconds per minute
MinutesPerDay == 2    \* minutes per calendar day
MaxClients == 1       \* connections accepted under IpcSpec
MaxRequests == 2      \* requests a peer writes on its connection
IpcSessions == 1      \* launches approved under IpcSpec
EventSessions == 1    \* launches approved under EventSpec
EventMono == 3        \* horizon of the monotonic clock under EventSpec
EventRequests == 1    \* requests a peer writes under EventSpec
OrderSessions == 1    \* launches approved under OrderSpec
CloseSessions == 1    \* launches approved under CloseSpec
CloseRequests == 1    \* requests a peer writes under CloseSpec
OrderClients == 2     \* connections accepted under OrderSpec
RateSessions == 1     \* launches approved under RateSpec
RateMono == 1         \* horizon of the monotonic clock under RateSpec
RateRequests == 3     \* requests a peer writes under RateSpec
ScenarioMono == 11    \* horizon of the monotonic clock under ScenarioSpec
WindowSessions == 1   \* launches approved under WindowSpec
ShutdownSessions == 1 \* launches approved under ShutdownSpec
StopSessions == 1     \* children spawned under StopSpec
MaxTimeout == 3       \* longest timeout of a Graceful stop under StopSpec, in quarter-deciseconds
MaxStopCalls == 2     \* calls of LinuxHost::stop under StopSpec
UnsubSessions == 1    \* launches approved under UnsubSpec
StoreSessions == 1    \* launches approved under StoreSpec
StoreMono == 4        \* horizon of the monotonic clock under StoreSpec
BucketMono == 2       \* horizon of the monotonic clock under BucketSpec
WindowMono == 3       \* horizon of the monotonic clock under WindowSpec
MaxStoredUsage == 3   \* largest usage row the store holds when WindowSpec starts
EventCapacity == 2    \* events the broadcast channel retains (100 in IpcServer::new)
MaxTokens == 2        \* requests per interval the rate limiter allows (30 in Service::new)

(* Program constants and the policy under test *)

None == -1

RefillInterval == 1   \* seconds: RateLimiter::new(30, Duration::from_secs(1))

PollInterval == 2     \* quarter-deciseconds: the sleep of 50 ms in the wait loop of LinuxHost::stop

DayLen == MinutesPerDay * MinuteLen   \* wall-clock seconds per calendar day

date_naive(t) == t \div DayLen

\* dt.weekday(), day 0 being the first day of a week of seven.
weekday(t) == date_naive(t) % 7

\* WallClock::from_naive_time(dt.time()): the minute of the day, seconds dropped.
from_naive_time(t) == (t % DayLen) \div MinuteLen

as_seconds_from_midnight(clock) == clock * MinuteLen

Entries == <<
    [id |-> "game", kind |-> "Process", disabled |-> FALSE, always |-> TRUE, windows |-> <<>>,
     max_run |-> 10, daily_quota |-> None, cooldown |-> None,
     warnings |-> << [seconds_before |-> 5, severity |-> "Warn"],
                     [seconds_before |-> 2, severity |-> "Critical"] >>],
    [id |-> "quiz", kind |-> "Process", disabled |-> FALSE, always |-> TRUE, windows |-> <<>>,
     max_run |-> 3, daily_quota |-> 4, cooldown |-> None,
     warnings |-> << [seconds_before |-> 2, severity |-> "Warn"],
                     [seconds_before |-> 2, severity |-> "Critical"] >>],
    [id |-> "free", kind |-> "Process", disabled |-> FALSE, always |-> TRUE, windows |-> <<>>,
     max_run |-> None, daily_quota |-> None, cooldown |-> 1,
     warnings |-> << [seconds_before |-> 1, severity |-> "Warn"] >>],
    [id |-> "slot", kind |-> "Process", disabled |-> FALSE, always |-> FALSE,
     windows |-> << [days |-> {0}, start |-> 0, end |-> 1] >>,
     max_run |-> 3, daily_quota |-> 4, cooldown |-> None, warnings |-> <<>>],
    [id |-> "nap", kind |-> "Process", disabled |-> FALSE, always |-> FALSE,
     windows |-> << [days |-> {1}, start |-> 0, end |-> 1],
                    [days |-> {0, 1}, start |-> 1, end |-> 0] >>,
     max_run |-> 1, daily_quota |-> None, cooldown |-> None, warnings |-> <<>>]
>>

EntryIds == {Entries[i].id : i \in 1..Len(Entries)}
UnknownId == "ghost"
LaunchIds == EntryIds \cup {UnknownId}
SessionIds == 1..MaxSessions

spawn_kinds_supported == {"Process", "Vm", "Media"}

MinD(a, b) == IF a <= b THEN a ELSE b

-----------------------------------------------------------------------------
(* shepherd-store/src/sqlite.rs: the usage table, a row per (entry_id, day) *)

get_usage(u, entry_id, day) ==
    IF <<entry_id, day>> \in DOMAIN u THEN u[<<entry_id, day>>] ELSE 0

add_usage(u, entry_id, day, duration) ==
    [k \in (DOMAIN u) \cup {<<entry_id, day>>} |->
        IF k = <<entry_id, day>> THEN get_usage(u, entry_id, day) + duration ELSE u[k]]

\* A write to a table of the store: the table after it, which is the table
\* before it when the write returns Err.
store_write(fails, before, after) == IF fails THEN before ELSE after

\* Store::append_audit for `records`: what reaches the audit log.
append_audit(records) == store_write(store_fails, <<>>, records)

-----------------------------------------------------------------------------
(* shepherd-config: Policy *)

get_entry(id) ==
    LET idx == {i \in 1..Len(Entries) : Entries[i].id = id}
    IN  IF idx = {} THEN <<>>
        ELSE << Entries[CHOOSE i \in idx : \A j \in idx : i <= j] >>

-----------------------------------------------------------------------------
(* shepherd-util/src/time.rs: TimeWindow, a day set and two WallClock minutes *)

TimeWindow_contains(w, t) ==
    LET time == from_naive_time(t)
    IN  /\ weekday(t) \in w.days
        /\ IF w.start <= w.end
           THEN time >= w.start /\ time < w.end
           ELSE time >= w.start \/ time < w.end

saturating_sub(a, b) == IF a >= b THEN a - b ELSE 0

remaining_duration(w, t) ==
    IF ~TimeWindow_contains(w, t) THEN None
    ELSE LET now_secs == as_seconds_from_midnight(from_naive_time(t))
             end_secs == as_seconds_from_midnight(w.end)
         IN  IF w.start <= w.end
             THEN saturating_sub(end_secs, now_secs)
             ELSE IF now_secs >= as_seconds_from_midnight(w.start)
                  THEN (DayLen - now_secs) + end_secs
                  ELSE saturating_sub(end_secs, now_secs)

-----------------------------------------------------------------------------
(* shepherd-config/src/policy.rs: AvailabilityPolicy *)

is_available(entry, t) ==
    \/ entry.always
    \/ entry.windows = <<>>
    \/ \E i \in 1..Len(entry.windows) : TimeWindow_contains(entry.windows[i], t)

\* find_map: the remaining_duration of the first window that contains t.
remaining_in_window(entry, t) ==
    IF entry.always THEN None
    ELSE LET hits == {i \in 1..Len(entry.windows) :
                         TimeWindow_contains(entry.windows[i], t)}
         IN  IF hits = {} THEN None
             ELSE remaining_duration(
                      entry.windows[CHOOSE i \in hits : \A j \in hits : i <= j], t)

-----------------------------------------------------------------------------
(* shepherd-core/src/session.rs *)

\* warning_times without the filter.
warning_times_unfiltered(plan) ==
    IF plan.max_duration = None THEN <<>>
    ELSE [i \in 1..Len(plan.warnings) |->
            <<plan.warnings[i].seconds_before,
              plan.max_duration - plan.warnings[i].seconds_before>>]

warning_times(plan) ==
    LET Short(w) == w.seconds_before < plan.max_duration
        kept     == SelectSeq(plan.warnings, Short)
    IN  IF plan.max_duration = None THEN <<>>
        ELSE [i \in 1..Len(kept) |->
                <<kept[i].seconds_before, plan.max_duration - kept[i].seconds_before>>]

ActiveSession_new(plan, t, t_mono) ==
    [ plan            |-> plan,
      state           |-> "Launching",
      started_at      |-> t,
      started_at_mono |-> t_mono,
      deadline        |-> IF plan.max_duration = None THEN None ELSE t + plan.max_duration,
      deadline_mono   |-> IF plan.max_duration = None THEN None ELSE t_mono + plan.max_duration,
      warnings_issued |-> <<>>,
      host_handle     |-> <<>> ]

attach_handle(s, handle) ==
    [s EXCEPT !.host_handle = <<handle>>, !.state = "Running"]

saturating_duration_until(deadline, from) ==
    IF deadline > from THEN deadline - from ELSE 0

time_remaining(s, t_mono) ==
    IF s.deadline_mono = None THEN None
    ELSE saturating_duration_until(s.deadline_mono, t_mono)

\* is_expired with > for >=.
is_expired_strict(s, t_mono) ==
    IF s.deadline_mono = None THEN FALSE ELSE t_mono > s.deadline_mono

\* is_expired against the wall-clock deadline.
is_expired_wall(s, t_mono) ==
    IF s.deadline = None THEN FALSE ELSE now >= s.deadline

\* is_expired without the None arm.
is_expired_unlimited_too(s, t_mono) == t_mono >= s.deadline_mono

is_expired(s, t_mono) ==
    IF s.deadline_mono = None THEN FALSE ELSE t_mono >= s.deadline_mono

Contains(seq, x) == \E i \in 1..Len(seq) : seq[i] = x

\* pending_warnings with > for >= in the filter.
pending_warnings_late(s, t_mono) ==
    LET remaining == time_remaining(s, t_mono)
        elapsed   == t_mono - s.started_at_mono
        Due(p)    == elapsed > p[2] /\ ~Contains(s.warnings_issued, p[1])
        Pair(p)   == <<p[1], remaining>>
        due       == SelectSeq(warning_times(s.plan), Due)
    IN  IF remaining = None THEN <<>>
        ELSE [i \in 1..Len(due) |-> Pair(due[i])]

pending_warnings(s, t_mono) ==
    LET remaining == time_remaining(s, t_mono)
        elapsed   == t_mono - s.started_at_mono
        Due(p)    == elapsed >= p[2] /\ ~Contains(s.warnings_issued, p[1])
        Pair(p)   == <<p[1], remaining>>
        due       == SelectSeq(warning_times(s.plan), Due)
    IN  IF remaining = None THEN <<>>
        ELSE [i \in 1..Len(due) |-> Pair(due[i])]

mark_warning_issued(s, threshold) ==
    [s EXCEPT
       !.warnings_issued = IF Contains(@, threshold) THEN @ ELSE Append(@, threshold),
       !.state = IF @ = "Running" THEN "Warned" ELSE @]

mark_expiring(s) == [s EXCEPT !.state = "Expiring"]

\* duration_so_far measured on the wall clock.
duration_so_far_wall(s, t_mono) == now - s.started_at

duration_so_far(s, t_mono) == t_mono - s.started_at_mono

-----------------------------------------------------------------------------
(* shepherd-core/src/engine.rs *)

\* compute_max_duration without the availability window.
compute_max_duration_no_window(entry, t) ==
    LET m0   == entry.max_run
        used == get_usage(usage, entry.id, date_naive(t))
        q    == IF entry.daily_quota = None THEN None
                ELSE IF entry.daily_quota > used THEN entry.daily_quota - used ELSE 0
    IN  IF q = None THEN m0
        ELSE IF m0 = None THEN q ELSE MinD(m0, q)

compute_max_duration(entry, t) ==
    LET m0   == entry.max_run
        w    == remaining_in_window(entry, t)
        m1   == IF w = None THEN m0
                ELSE IF m0 = None THEN w ELSE MinD(m0, w)
        used == get_usage(usage, entry.id, date_naive(t))
        q    == IF entry.daily_quota = None THEN None
                ELSE IF entry.daily_quota > used THEN entry.daily_quota - used ELSE 0
    IN  IF q = None THEN m1
        ELSE IF m1 = None THEN q ELSE MinD(m1, q)

\* evaluate_entry without its check of current_session.
session_active_reason_skipped == <<>>

\* The "Check if another session is active" block of evaluate_entry.
session_active_reason ==
    IF current_session # <<>>
    THEN <<[code      |-> "SessionActive",
            entry_id  |-> current_session[1].plan.entry_id,
            remaining |-> time_remaining(current_session[1], now_mono)]>>
    ELSE <<>>

\* cooldown_reason that still denies at the instant the cooldown ends.
cooldown_reason_inclusive(entry, t) ==
    LET until == cooldowns[entry.id]
    IN  IF until # None /\ until >= t
        THEN <<[code |-> "CooldownActive", available_at |-> until]>> ELSE <<>>

\* The "Check cooldown" block of evaluate_entry.
cooldown_reason(entry, t) ==
    LET until == cooldowns[entry.id]
    IN  IF until # None /\ until > t
        THEN <<[code |-> "CooldownActive", available_at |-> until]>> ELSE <<>>

\* quota_reason that lets usage equal to the quota pass.
quota_reason_strict(entry, t) ==
    LET used == get_usage(usage, entry.id, date_naive(t))
    IN  IF entry.daily_quota # None /\ used > entry.daily_quota
        THEN <<[code |-> "QuotaExhausted", used |-> used, quota |-> entry.daily_quota]>>
        ELSE <<>>

\* The "Check daily quota" block of evaluate_entry.
quota_reason(entry, t) ==
    LET used == get_usage(usage, entry.id, date_naive(t))
    IN  IF entry.daily_quota # None /\ used >= entry.daily_quota
        THEN <<[code |-> "QuotaExhausted", used |-> used, quota |-> entry.daily_quota]>>
        ELSE <<>>

\* The reasons, in the order the code pushes them; enabled is false exactly
\* when a reason was pushed.
evaluate_entry(entry, t) ==
    LET r_disabled == IF entry.disabled THEN <<[code |-> "Disabled"]>> ELSE <<>>
        r_kind     == IF entry.kind \notin spawn_kinds_supported
                      THEN <<[code |-> "UnsupportedKind"]>> ELSE <<>>
        r_window   == IF ~is_available(entry, t)
                      THEN <<[code |-> "OutsideTimeWindow"]>> ELSE <<>>
        r_session  == session_active_reason
        r_cooldown == cooldown_reason(entry, t)
        r_quota    == quota_reason(entry, t)
        reasons    == r_disabled \o r_kind \o r_window \o r_session \o r_cooldown \o r_quota
        enabled    == reasons = <<>>
    IN  [ entry_id |-> entry.id,
          enabled  |-> enabled,
          reasons  |-> reasons,
          max_run_if_started_now |->
              IF enabled THEN compute_max_duration(entry, t) ELSE None ]

list_entries(t) == [i \in 1..Len(Entries) |-> evaluate_entry(Entries[i], t)]

request_launch(entry_id, t) ==
    LET e == get_entry(entry_id)
    IN  IF e = <<>>
        THEN [approved |-> FALSE, reasons |-> <<[code |-> "Disabled"]>>, plan |-> <<>>]
        ELSE LET view == evaluate_entry(e[1], t)
             IN  IF ~view.enabled
                 THEN [approved |-> FALSE, reasons |-> view.reasons, plan |-> <<>>]
                 ELSE [approved |-> TRUE, reasons |-> <<>>,
                       plan |-> <<[session_id   |-> next_id + 1,
                                   entry_id     |-> entry_id,
                                   max_duration |-> view.max_run_if_started_now,
                                   warnings     |-> e[1].warnings]>>]

start_session(plan, t, t_mono) ==
    LET session == ActiveSession_new(plan, t, t_mono)
    IN  [ session |-> <<session>>,
          event   |-> [type       |-> "SessionStarted",
                       session_id |-> session.plan.session_id,
                       entry_id   |-> session.plan.entry_id,
                       deadline   |-> session.deadline] ]

attach_host_handle(sess, handle) ==
    IF sess = <<>> THEN sess ELSE <<attach_handle(sess[1], handle)>>

Severity(s, threshold) ==
    LET idx == {i \in 1..Len(s.plan.warnings) :
                    s.plan.warnings[i].seconds_before = threshold}
    IN  IF idx = {} THEN "Warn"
        ELSE s.plan.warnings[CHOOSE i \in idx : \A j \in idx : i <= j].severity

\* The for loop of tick over the pairs pending_warnings returned: after[i]
\* is the session once i of them are marked.
TickWarnings(s, pending) ==
    LET after[i \in 0..Len(pending)] ==
            IF i = 0 THEN s ELSE mark_warning_issued(after[i - 1], pending[i][1])
        ev(i) == [type              |-> "Warning",
                  session_id        |-> s.plan.session_id,
                  threshold_seconds |-> pending[i][1],
                  time_remaining    |-> pending[i][2],
                  severity          |-> Severity(s, pending[i][1])]
    IN  [session |-> after[Len(pending)],
         events  |-> [i \in 1..Len(pending) |-> ev(i)]]

tick(sess, t_mono) ==
    IF sess = <<>> THEN [session |-> sess, events |-> <<>>]
    ELSE LET w == TickWarnings(sess[1], pending_warnings(sess[1], t_mono))
             s == w.session
         IN  IF is_expired(s, t_mono) /\ s.state # "Expiring" /\ s.state # "Ended"
             THEN [session |-> <<mark_expiring(s)>>,
                   events  |-> w.events \o
                               <<[type |-> "ExpireDue", session_id |-> s.plan.session_id]>>]
             ELSE [session |-> <<s>>, events |-> w.events]

\* The bookkeeping stop_current and notify_session_exited both do: add_usage,
\* set_cooldown_until when the entry has a cooldown, and the SessionEnded record.
EndSessionWith(fails, s, reason, t_mono, t) ==
    LET duration == duration_so_far(s, t_mono)
        eid      == s.plan.entry_id
        today    == date_naive(t)
        entry    == get_entry(eid)
        cd       == entry # <<>> /\ entry[1].cooldown # None
    IN  [ ended     |-> TRUE,
          session   |-> <<>>,
          usage     |-> store_write(fails, usage, add_usage(usage, eid, today, duration)),
          cooldowns |-> IF cd
                        THEN store_write(fails, cooldowns,
                                         [cooldowns EXCEPT ![eid] = t + entry[1].cooldown])
                        ELSE cooldowns,
          add_usage    |-> <<s.plan.session_id>>,
          set_cooldown |-> IF cd THEN <<s.plan.session_id>> ELSE <<>>,
          event     |-> [type       |-> "SessionEnded",
                         session_id |-> s.plan.session_id,
                         entry_id   |-> eid,
                         reason     |-> reason,
                         duration   |-> duration],
          audit     |-> store_write(fails, <<>>, <<"SessionEnded">>) ]

\* The same bookkeeping undone when the store is out of order: the session
\* is kept and nothing is returned.
EndSession_rolls_back(s, reason, t_mono, t) ==
    IF store_fails
    THEN [ ended |-> FALSE, session |-> <<s>>, usage |-> usage, cooldowns |-> cooldowns,
           add_usage |-> <<>>, set_cooldown |-> <<>>, event |-> [type |-> "None"],
           audit |-> <<>> ]
    ELSE EndSessionWith(FALSE, s, reason, t_mono, t)

EndSession(s, reason, t_mono, t) == EndSessionWith(store_fails, s, reason, t_mono, t)

NoEnd(sess) ==
    [ ended |-> FALSE, session |-> sess, usage |-> usage, cooldowns |-> cooldowns,
      add_usage |-> <<>>, set_cooldown |-> <<>>, event |-> [type |-> "None"],
      audit |-> <<>> ]

\* ExitReason that never looks at the session state.
ExitReason_always_exited(s, exit_code) == [kind |-> "ProcessExited", exit_code |-> exit_code]

ExitReason(s, exit_code) ==
    IF s.state = "Expiring" THEN [kind |-> "Expired"]
    ELSE [kind |-> "ProcessExited", exit_code |-> exit_code]

notify_session_exited(sess, exit_code, t_mono, t) ==
    IF sess = <<>> THEN NoEnd(sess)
    ELSE EndSession(sess[1], ExitReason(sess[1], exit_code), t_mono, t)

\* stop_current writing a SessionEnded audit record whether or not a session
\* was there.
stop_current_audits_idle(sess, reason, t_mono, t) ==
    IF sess = <<>> THEN [NoEnd(sess) EXCEPT !.audit = <<"SessionEnded">>]
    ELSE EndSession(sess[1], reason, t_mono, t)

\* stop_current reading the session without taking it.
stop_current_keeps_session(sess, reason, t_mono, t) ==
    IF sess = <<>> THEN NoEnd(sess)
    ELSE [EndSession(sess[1], reason, t_mono, t) EXCEPT !.session = sess]

stop_current(sess, reason, t_mono, t) ==
    IF sess = <<>> THEN NoEnd(sess)
    ELSE EndSession(sess[1], reason, t_mono, t)

\* extend_current moving the monotonic deadline only.
extend_current_mono_only(sess, by, t_mono, t) ==
    IF sess = <<>> THEN [session |-> sess, new_deadline |-> <<>>]
    ELSE IF sess[1].deadline_mono = None \/ sess[1].deadline = None
         THEN [session |-> sess, new_deadline |-> <<>>]
         ELSE [session |-> <<[sess[1] EXCEPT !.deadline_mono = @ + by]>>,
               new_deadline |-> <<sess[1].deadline + by>>]

\* extend_current that also forgets the warnings already issued.
extend_current_rearms(sess, by, t_mono, t) ==
    IF sess = <<>> THEN [session |-> sess, new_deadline |-> <<>>]
    ELSE IF sess[1].deadline_mono = None \/ sess[1].deadline = None
         THEN [session |-> sess, new_deadline |-> <<>>]
         ELSE [session |-> <<[sess[1] EXCEPT !.deadline_mono = @ + by,
                                             !.deadline = @ + by,
                                             !.warnings_issued = <<>>]>>,
               new_deadline |-> <<sess[1].deadline + by>>]

\* extend_current that also puts the session back to Running.
extend_current_revives(sess, by, t_mono, t) ==
    IF sess = <<>> THEN [session |-> sess, new_deadline |-> <<>>]
    ELSE IF sess[1].deadline_mono = None \/ sess[1].deadline = None
         THEN [session |-> sess, new_deadline |-> <<>>]
         ELSE [session |-> <<[sess[1] EXCEPT !.deadline_mono = @ + by,
                                             !.deadline = @ + by,
                                             !.state = "Running"]>>,
               new_deadline |-> <<sess[1].deadline + by>>]

extend_current(sess, by, t_mono, t) ==
    IF sess = <<>> THEN [session |-> sess, new_deadline |-> <<>>]
    ELSE IF sess[1].deadline_mono = None \/ sess[1].deadline = None
         THEN [session |-> sess, new_deadline |-> <<>>]
         ELSE [session |-> <<[sess[1] EXCEPT !.deadline_mono = @ + by,
                                             !.deadline = @ + by]>>,
               new_deadline |-> <<sess[1].deadline + by>>]

-----------------------------------------------------------------------------
(* shepherd-host-linux/src/adapter.rs *)

Signalled == <<>>      \* ExitStatus.code of a child ended by a signal
ExitedOk == <<0>>      \* ExitStatus.code of a child that returned 0

HostState ==
    [ processes |-> processes, session_info |-> session_info,
      monitor_pending |-> monitor_pending, host_events |-> host_events ]

Without(f, k) == [x \in (DOMAIN f) \ {k} |-> f[x]]

ExitedEvent(pid, code) == [type |-> "Exited", pid |-> pid, code |-> code]

host_spawn(st, session_id, pid) ==
    [st EXCEPT !.processes = pid :> [status |-> "running", code |-> Signalled] @@ @,
               !.session_info = @ \cup {session_id}]

\* LinuxHost::stop.  The soft signal ends a running child; while stop polls
\* the table the monitor may reap the child and send (or be about to send)
\* its Exited event; when the timeout elapses first the child gets the hard
\* signal and is left in the table for the monitor.
host_stop(st, handle, mode) ==
    LET pid      == handle.pid
        sid      == handle.session_id
        has_info == sid \in st.session_info
        has_proc == pid \in DOMAIN st.processes
        code     == IF has_proc /\ st.processes[pid].status = "exited"
                    THEN st.processes[pid].code ELSE Signalled
        done(x)  == [x EXCEPT !.session_info = @ \ {sid}]
        killed   == [st EXCEPT !.processes[pid] = [status |-> "exited", code |-> code]]
        reaped   == [st EXCEPT !.processes = Without(@, pid)]
        sent     == [reaped EXCEPT !.host_events = Append(@, ExitedEvent(pid, code))]
        unsent   == [reaped EXCEPT !.monitor_pending = Append(@, ExitedEvent(pid, code))]
    IN  IF ~has_info /\ ~has_proc
        THEN {[result |-> "SessionNotFound", st |-> st]}
        ELSE IF ~has_proc
             THEN {[result |-> "Ok", st |-> done(st)]}
             ELSE IF mode = "Force"
                  THEN {[result |-> "Ok", st |-> done(killed)]}
                  ELSE {[result |-> "Ok", st |-> done(x)] : x \in {killed, sent, unsent}}

StopCall(handle, mode, o) == [pid |-> handle.pid, mode |-> mode, result |-> o.result]

\* handle_core_event(ExpireDue) without the calls of host.stop.
StopSkipped(st, handle) == {[st |-> st, calls |-> <<>>]}

\* handle_core_event(ExpireDue): Graceful first, Force when that fails.
StopEscalating(st, handle) ==
    UNION { IF g.result = "Ok"
            THEN {[st |-> g.st, calls |-> <<StopCall(handle, "Graceful", g)>>]}
            ELSE {[st |-> f.st,
                   calls |-> <<StopCall(handle, "Graceful", g), StopCall(handle, "Force", f)>>]
                   : f \in host_stop(g.st, handle, "Force")}
          : g \in host_stop(st, handle, "Graceful") }

\* handle_command(StopCurrent) and the shutdown of Service::run: one call of
\* host.stop whose result is dropped.
StopOnce(st, handle, mode) ==
    {[st |-> o.st, calls |-> <<StopCall(handle, mode, o)>>] : o \in host_stop(st, handle, mode)}

\* LinuxHost::stop step by step, as the monitor task and the child see it.
\* stop_task holds the position of the call and its locals: the handle, the
\* mode, the timeout, whether session_info had the session, the time since
\* `start`, the signals sent so far (each with whether the pid was in the
\* process table when it was sent), and the result once it has returned.
NoStop ==
    [pc |-> "idle", pid |-> 0, session_id |-> 0, mode |-> "", timeout |-> 0,
     info |-> FALSE, elapsed |-> 0, signals |-> <<>>, result |-> "", calls |-> 0]

Signal(signal, via) ==
    [signal |-> signal, via |-> via, in_table |-> stop_task.pid \in DOMAIN processes]

\* kill_by_command for a session with session_info, then terminate or kill
\* of the ManagedProcess if the pid is in the table.
SignalsSent(signal) ==
    (IF stop_task.info THEN <<Signal(signal, "command")>> ELSE <<>>) \o
    (IF stop_task.pid \in DOMAIN processes THEN <<Signal(signal, "handle")>> ELSE <<>>)

\* All variables but those a call of LinuxHost::stop reads or writes.
stop_frame == <<now_mono, now, current_session, usage, cooldowns, monitor_pending,
                host_events, next_id, balance, warned, expire_due, extended, credits,
                cooldown_writes, stop_requested, stop_calls, shut_down, store_fails,
                end_reason, launched, fresh, last, end_duration, ipcvars, audited>>

\* Entry of stop: the lookups in session_info and in the process table.
StopEnter(handle, mode, timeout) ==
    LET has_info == handle.session_id \in session_info
        has_proc == handle.pid \in DOMAIN processes
        call     == [NoStop EXCEPT !.pid = handle.pid, !.session_id = handle.session_id,
                                   !.mode = mode, !.timeout = timeout, !.info = has_info,
                                   !.calls = stop_task.calls + 1]
    IN  /\ stop_task.pc \in {"idle", "returned"}
        /\ stop_task' = IF ~has_info /\ ~has_proc
                        THEN [call EXCEPT !.pc = "returned", !.result = "SessionNotFound"]
                        ELSE [call EXCEPT !.pc = IF mode = "Graceful" THEN "term" ELSE "force"]
        /\ UNCHANGED <<processes, session_info, stop_frame>>

\* Graceful: SIGTERM by command name and through the process handle, then
\* `start` is taken.
StopTerm ==
    /\ stop_task.pc = "term"
    /\ stop_task' = [stop_task EXCEPT !.signals = @ \o SignalsSent("TERM"),
                                      !.elapsed = 0, !.pc = "poll"]
    /\ UNCHANGED <<processes, session_info, stop_frame>>

\* SIGKILL ends a child that is still running; its status waits in the
\* table for the monitor.
Killed(procs, pid) ==
    IF pid \in DOMAIN procs /\ procs[pid].status = "running"
    THEN [procs EXCEPT ![pid] = [status |-> "exited", code |-> Signalled]]
    ELSE procs

\* One turn of the wait loop: the timeout is looked at first and ends the
\* wait with SIGKILL; else the loop ends if the pid has left the table, and
\* sleeps if it has not.
StopPoll ==
    /\ stop_task.pc = "poll"
    /\ IF stop_task.elapsed >= stop_task.timeout
       THEN /\ stop_task' = [stop_task EXCEPT !.signals = @ \o SignalsSent("KILL"),
                                              !.pc = "cleanup"]
            /\ processes' = Killed(processes, stop_task.pid)
       ELSE /\ stop_task' = [stop_task EXCEPT
                                !.pc = IF stop_task.pid \in DOMAIN processes
                                       THEN "sleep" ELSE "cleanup"]
            /\ UNCHANGED processes
    /\ UNCHANGED <<session_info, stop_frame>>

\* The sleep of the wait loop is over.
StopWake ==
    /\ stop_task.pc = "sleep"
    /\ stop_task' = [stop_task EXCEPT !.elapsed = @ + PollInterval, !.pc = "poll"]
    /\ UNCHANGED <<processes, session_info, stop_frame>>

\* Force: SIGKILL by command name and through the process handle.
StopForce ==
    /\ stop_task.pc = "force"
    /\ stop_task' = [stop_task EXCEPT !.signals = @ \o SignalsSent("KILL"),
                                      !.pc = "cleanup"]
    /\ processes' = Killed(processes, stop_task.pid)
    /\ UNCHANGED <<session_info, stop_frame>>

\* The end of stop: the session leaves session_info, Ok is returned.
StopReturn ==
    /\ stop_task.pc = "cleanup"
    /\ session_info' = session_info \ {stop_task.session_id}
    /\ stop_task' = [stop_task EXCEPT !.pc = "returned", !.result = "Ok"]
    /\ UNCHANGED <<processes, stop_frame>>

SetHost(st) ==
    /\ processes' = st.processes
    /\ session_info' = st.session_info
    /\ monitor_pending' = st.monitor_pending
    /\ host_events' = st.host_events

hostvars == <<processes, session_info, monitor_pending, host_events>>

\* A child ends on its own.
ChildExits ==
    \E pid \in DOMAIN processes :
        /\ processes[pid].status = "running"
        /\ processes' = [processes EXCEPT ![pid] = [status |-> "exited", code |-> ExitedOk]]
        /\ UNCHANGED <<end_reason, end_duration, ipcvars, audited, launched, fresh, last, now_mono, now, current_session, usage, cooldowns, session_info,
                       monitor_pending, host_events, next_id, balance, warned,
                       expire_due, extended, credits, cooldown_writes, stop_requested, stop_calls, shut_down, stop_task, store_fails>>

\* start_monitor collecting the exited children without removing them from
\* the table.
MonitorCollect_keeps ==
    LET gone == {pid \in DOMAIN processes : processes[pid].status = "exited"}
    IN  /\ gone # {}
        /\ \E order \in [1..Cardinality(gone) -> gone] :
              /\ \A i, j \in DOMAIN order : i # j => order[i] # order[j]
              /\ monitor_pending' = monitor_pending \o
                    [i \in DOMAIN order |-> ExitedEvent(order[i], processes[order[i]].code)]
        /\ UNCHANGED <<end_reason, end_duration, ipcvars, audited, launched, fresh, last,
                       now_mono, now, current_session, usage, cooldowns, session_info,
                       host_events, next_id, balance, warned, expire_due, extended,
                       credits, cooldown_writes, stop_requested, stop_calls, shut_down,
                       stop_task, store_fails, processes>>

\* start_monitor, first half of a poll: try_wait on every child under the
\* table lock, the exited ones are removed and collected.
MonitorCollect ==
    LET gone == {pid \in DOMAIN processes : processes[pid].status = "exited"}
    IN  /\ gone # {}
        /\ \E order \in [1..Cardinality(gone) -> gone] :
              /\ \A i, j \in DOMAIN order : i # j => order[i] # order[j]
              /\ monitor_pending' = monitor_pending \o
                    [i \in DOMAIN order |-> ExitedEvent(order[i], processes[order[i]].code)]
        /\ processes' = [pid \in (DOMAIN processes) \ gone |-> processes[pid]]
        /\ UNCHANGED <<end_reason, end_duration, ipcvars, audited, launched, fresh, last, now_mono, now, current_session, usage, cooldowns, session_info,
                       host_events, next_id, balance, warned, expire_due, extended,
                       credits, cooldown_writes, stop_requested, stop_calls, shut_down, stop_task, store_fails>>

\* start_monitor, second half: event_tx.send for each collected exit.
MonitorSend ==
    /\ monitor_pending # <<>>
    /\ host_events' = Append(host_events, Head(monitor_pending))
    /\ monitor_pending' = Tail(monitor_pending)
    /\ UNCHANGED <<end_reason, end_duration, ipcvars, audited, launched, fresh, last, now_mono, now, current_session, usage, cooldowns, processes,
                   session_info, next_id, balance, warned, expire_due, extended,
                   credits, cooldown_writes, stop_requested, stop_calls, shut_down, stop_task, store_fails>>

-----------------------------------------------------------------------------
(* shepherd-ipc/src/server.rs: the channels of the server;
   shepherd-util/src/rate_limit.rs *)

With(f, k, v) == [x \in (DOMAIN f) \cup {k} |-> IF x = k THEN v ELSE f[x]]

\* send_response putting the response in front of those already queued.
send_response_front(client_id, response) ==
    IF client_id \in DOMAIN clients /\ client_id \in DOMAIN response_rx
    THEN [response_rx EXCEPT ![client_id] = <<response>> \o @]
    ELSE response_rx

\* IpcServer::send_response: queued for the writer task if the client is
\* still in the table, dropped otherwise.
send_response(client_id, response) ==
    IF client_id \in DOMAIN clients /\ client_id \in DOMAIN response_rx
    THEN [response_rx EXCEPT ![client_id] = Append(@, response)]
    ELSE response_rx

Event(type, session_id) == [type |-> type, session_id |-> session_id]

\* broadcast::Sender::send as one receiver sees it: the channel retains
\* EventCapacity values; a further value overwrites the oldest one the
\* receiver has not read, and the receiver is marked as lagging.
broadcast_send(rx, event) ==
    IF Len(rx.queue) < EventCapacity
    THEN [rx EXCEPT !.queue = Append(@, event)]
    ELSE [rx EXCEPT !.queue = Append(Tail(@), event), !.lagged = TRUE]

RECURSIVE broadcast_all(_, _)
broadcast_all(rx, events) ==
    IF events = <<>> THEN rx
    ELSE broadcast_all(broadcast_send(rx, Head(events)), Tail(events))

\* IpcServer::broadcast_event, called for each of `events` in order.
broadcast_event(events) ==
    [c \in DOMAIN event_rx |-> broadcast_all(event_rx[c], events)]

\* What a handler of Service::run hands to the IPC server: the response to
\* the requesting client, if any, and the events it broadcasts.
Emit(client_id, response, events) ==
    /\ response_rx' = IF response = <<>> THEN response_rx
                      ELSE send_response(client_id, response[1])
    /\ event_rx' = broadcast_event(events)
    /\ started_broadcast' = started_broadcast \cup
          {events[i].session_id :
              i \in {j \in 1..Len(events) : events[j].type = "SessionStarted"}}
    /\ UNCHANGED <<clients, next_client, peers, roles, delivered, subscribed,
                   events_written>>

\* No client: the command reached handle_command from a peer the model
\* leaves out.
NoClient == 0

\* RateLimiter::check refilling the bucket at every call, whatever time has
\* passed since the last refill.
check_refills_early(limiter, client_id, t_mono) ==
    LET refilled == [tokens |-> MaxTokens, last_refill |-> t_mono]
    IN  [allowed |-> TRUE,
         limiter |-> With(limiter, client_id, [refilled EXCEPT !.tokens = @ - 1])]

\* RateLimiter::check: the client's bucket is created full, refilled when
\* the interval has passed, and one token is taken if there is one.
check(limiter, client_id, t_mono) ==
    LET bucket   == IF client_id \in DOMAIN limiter THEN limiter[client_id]
                    ELSE [tokens |-> MaxTokens, last_refill |-> t_mono]
        elapsed  == t_mono - bucket.last_refill
        refilled == IF elapsed >= RefillInterval
                    THEN [tokens      |-> MinD(bucket.tokens +
                                               (elapsed \div RefillInterval) * MaxTokens,
                                               MaxTokens),
                          last_refill |-> t_mono]
                    ELSE bucket
    IN  IF refilled.tokens > 0
        THEN [allowed |-> TRUE,
              limiter |-> With(limiter, client_id, [refilled EXCEPT !.tokens = @ - 1])]
        ELSE [allowed |-> FALSE, limiter |-> With(limiter, client_id, refilled)]

Response(request_id, command, code) ==
    [request_id |-> request_id, command |-> command, code |-> code]

-----------------------------------------------------------------------------
(* shepherdd/src/main.rs: Service::run and its handlers *)

Handle(session_id, pid) == [session_id |-> session_id, pid |-> pid]

Count(seq, type) == Cardinality({i \in 1..Len(seq) : seq[i].type = type})

Thresholds(events) ==
    LET W(e) == e.type = "Warning"
        ws   == SelectSeq(events, W)
    IN  [i \in 1..Len(ws) |-> ws[i].threshold_seconds]

\* The events handle_core_event broadcasts for the events of a tick.
CoreEventsBroadcast(events) ==
    [i \in 1..Len(events) |->
        Event(IF events[i].type = "Warning" THEN "WarningIssued" ELSE "SessionExpiring",
              events[i].session_id)]

\* SessionEnded and the StateChanged that follows it, when r ended a session.
EndedEvents(r) ==
    IF r.ended
    THEN <<Event("SessionEnded", r.event.session_id), Event("StateChanged", 0)>>
    ELSE <<>>

\* The store writes of an engine result r and the SessionEnded broadcast the
\* handler makes of it.
ApplyEnd(r) ==
    /\ current_session' = r.session
    /\ usage' = r.usage
    /\ cooldowns' = r.cooldowns
    /\ credits' = IF r.add_usage = <<>> THEN credits
                  ELSE [credits EXCEPT ![r.add_usage[1]] = @ + 1]
    /\ cooldown_writes' = IF r.set_cooldown = <<>> THEN cooldown_writes
                          ELSE [cooldown_writes EXCEPT ![r.set_cooldown[1]] = @ + 1]
    /\ balance' = IF r.ended THEN balance - 1 ELSE balance
    /\ end_reason' = IF r.ended
                     THEN [end_reason EXCEPT ![r.event.session_id] = r.event.reason.kind]
                     ELSE end_reason
    /\ fresh' = IF r.ended THEN FALSE ELSE fresh
    /\ end_duration' = IF r.ended THEN r.event.duration ELSE end_duration

\* Tick branch: engine.tick, then handle_core_event for each event in order.
Tick ==
    LET r      == tick(current_session, now_mono)
        expire == Count(r.events, "ExpireDue") > 0
        handle == IF r.session = <<>> THEN <<>> ELSE r.session[1].host_handle
    IN  /\ current_session' = r.session
        /\ warned' = warned \o Thresholds(r.events)
        /\ expire_due' = expire_due + Count(r.events, "ExpireDue")
        /\ fresh' = (r.session # <<>>)
        /\ audited' = append_audit([i \in 1..Count(r.events, "Warning") |-> "WarningIssued"])
        /\ last' = ""
        /\ IF expire /\ handle # <<>>
           THEN \E o \in StopEscalating(HostState, handle[1]) :
                   /\ SetHost(o.st)
                   /\ stop_requested' = stop_requested \cup
                                         {o.calls[i].pid : i \in 1..Len(o.calls)}
                   /\ stop_calls' = o.calls
           ELSE UNCHANGED <<hostvars, stop_requested, stop_calls>>
        /\ Emit(NoClient, <<>>, CoreEventsBroadcast(r.events))
        /\ UNCHANGED <<now_mono, now, usage, cooldowns, next_id, balance, extended,
                       credits, cooldown_writes, end_reason, end_duration, launched,
                       shut_down, stop_task, store_fails, ipc_messages, rate_limiter, extend_granted>>

\* Host event branch: handle_host_event(HostEvent::Exited).
HostExited ==
    /\ host_events # <<>>
    /\ LET ev == Head(host_events)
           r  == notify_session_exited(current_session, ev.code, now_mono, now)
       IN  /\ ApplyEnd(r)
           /\ host_events' = Tail(host_events)
           /\ audited' = r.audit
           /\ last' = ""
           /\ Emit(NoClient, <<>>, EndedEvents(r))
    /\ UNCHANGED <<now_mono, now, processes, session_info, monitor_pending, next_id,
                   warned, expire_due, extended, stop_requested, stop_calls, shut_down, stop_task, store_fails,
                   launched, ipc_messages, rate_limiter, extend_granted>>

\* handle_command(Command::Launch), spawn included, for the request
\* `request_id` of client `client_id`.
handle_Launch(client_id, request_id, entry_id, spawn_ok) ==
    LET d == request_launch(entry_id, now)
        R(code) == <<Response(request_id, "Launch", code)>>
    IN  IF ~d.approved
        THEN /\ last' = "LaunchDenied"
             /\ audited' = IF get_entry(entry_id) = <<>> THEN <<>>
                           ELSE append_audit(<<"LaunchDenied">>)
             /\ Emit(client_id, R("LaunchDenied"), <<>>)
             /\ UNCHANGED <<now_mono, now, current_session, usage, cooldowns, hostvars,
                            next_id, balance, warned, expire_due, extended, credits,
                            cooldown_writes, stop_requested, stop_calls, shut_down, stop_task, store_fails,
                            end_reason, end_duration, launched, fresh, extend_granted>>
        ELSE LET plan == d.plan[1]
                 st   == start_session(plan, now, now_mono)
                 pid  == plan.session_id
                 r    == notify_session_exited(st.session, <<-1>>, now_mono, now)
             IN  /\ next_id' = next_id + 1
                 /\ launched' = Append(launched, entry_id)
                 /\ warned' = <<>>
                 /\ expire_due' = 0
                 /\ extended' = 0
                 /\ UNCHANGED <<now_mono, now, stop_requested, stop_calls, shut_down, stop_task, store_fails,
                                extend_granted>>
                 /\ IF spawn_ok
                    THEN /\ current_session' =
                                attach_host_handle(st.session, Handle(plan.session_id, pid))
                         /\ SetHost(host_spawn(HostState, plan.session_id, pid))
                         /\ balance' = balance + 1
                         /\ fresh' = FALSE
                         /\ last' = "LaunchApproved"
                         /\ audited' = append_audit(<<"SessionStarted">>)
                         /\ end_duration' = None
                         /\ Emit(client_id, R("LaunchApproved"),
                                 <<Event("SessionStarted", plan.session_id)>>)
                         /\ UNCHANGED <<usage, cooldowns, credits, cooldown_writes,
                                        end_reason>>
                    ELSE /\ ApplyEnd(r)
                         /\ audited' = append_audit(<<"SessionStarted">>) \o r.audit
                         /\ last' = "HostError"
                         /\ Emit(client_id, R("HostError"), EndedEvents(r))
                         /\ UNCHANGED hostvars

\* A Launch command of a peer the model leaves out.
CmdLaunch(entry_id, spawn_ok) ==
    /\ handle_Launch(NoClient, 0, entry_id, spawn_ok)
    /\ UNCHANGED <<ipc_messages, rate_limiter>>

\* handle_command(Command::StopCurrent) for the request `request_id` of
\* client `client_id`.
handle_StopCurrent(client_id, request_id, mode) ==
    LET handle == IF current_session = <<>> THEN <<>> ELSE current_session[1].host_handle
        reason == IF mode = "Graceful" THEN [kind |-> "UserStop"] ELSE [kind |-> "AdminStop"]
        r      == stop_current(current_session, reason, now_mono, now)
        code   == IF r.ended THEN "Stopped" ELSE "NoActiveSession"
    IN  /\ ApplyEnd(r)
        /\ audited' = r.audit
        /\ last' = code
        /\ IF r.ended /\ handle # <<>>
           THEN \E o \in StopOnce(HostState, handle[1], mode) :
                   /\ SetHost(o.st)
                   /\ stop_requested' = stop_requested \cup {handle[1].pid}
                   /\ stop_calls' = o.calls
           ELSE UNCHANGED <<hostvars, stop_requested, stop_calls>>
        /\ Emit(client_id, <<Response(request_id, "StopCurrent", code)>>, EndedEvents(r))
        /\ UNCHANGED <<now_mono, now, next_id, warned, expire_due, extended, launched,
                       shut_down, stop_task, store_fails, extend_granted>>

\* A StopCurrent command of a peer the model leaves out.
CmdStopCurrent(mode) ==
    /\ handle_StopCurrent(NoClient, 0, mode)
    /\ UNCHANGED <<ipc_messages, rate_limiter>>

\* Service::run after SIGTERM, SIGINT or SIGHUP: the loop is left, the handle
\* of the current session is stopped, ServiceStopped is logged, run returns.
Shutdown ==
    LET handle == IF current_session = <<>> THEN <<>> ELSE current_session[1].host_handle
    IN  /\ ~shut_down
        /\ shut_down' = TRUE
        /\ IF handle # <<>>
           THEN \E o \in StopOnce(HostState, handle[1], "Graceful") :
                   /\ SetHost(o.st)
                   /\ stop_requested' = stop_requested \cup {handle[1].pid}
                   /\ stop_calls' = o.calls
           ELSE UNCHANGED <<hostvars, stop_requested, stop_calls>>
        /\ audited' = append_audit(<<"ServiceStopped">>)
        /\ last' = ""
        /\ UNCHANGED <<now_mono, now, current_session, usage, cooldowns, next_id, balance,
                       warned, expire_due, extended, credits, cooldown_writes, end_reason,
                       launched, fresh, end_duration, ipcvars, stop_task,
                       store_fails>>

\* handle_command(Command::ExtendCurrent) from a peer whose role can extend.
CmdExtendCurrent(by) ==
    LET r == extend_current(current_session, by, now_mono, now)
    IN  /\ current_session' = r.session
        /\ extended' = IF r.new_deadline # <<>> THEN extended + by ELSE extended
        /\ fresh' = IF r.new_deadline # <<>> THEN FALSE ELSE fresh
        /\ audited' = IF r.new_deadline # <<>> THEN append_audit(<<"SessionExtended">>)
                      ELSE <<>>
        /\ last' = IF r.new_deadline # <<>> THEN "Extended"
                   ELSE "NoActiveSessionOrUnlimited"
        /\ UNCHANGED <<now_mono, now, usage, cooldowns, hostvars, next_id, balance,
                       warned, expire_due, credits, cooldown_writes, stop_requested, stop_calls, shut_down, stop_task, store_fails,
                       end_reason, end_duration, ipcvars, launched>>

-----------------------------------------------------------------------------
(* shepherd-ipc/src/server.rs and Service::handle_ipc_message *)

ClientRoles == {"Shell", "Admin"}

IpcCommands == {"GetState", "ExtendCurrent", "ReloadConfig"}

can_extend(role) == role = "Admin"

can_reload_config(role) == role = "Admin"

\* IpcServer::get_client_info: the role in the client table, None once the
\* writer task has removed the client.
get_client_info(client_id) ==
    IF client_id \in DOMAIN clients THEN <<clients[client_id]>> ELSE <<>>

corevars == <<now_mono, now, current_session, usage, cooldowns, hostvars, next_id,
              balance, warned, expire_due, extended, credits, cooldown_writes,
              stop_requested, stop_calls, shut_down, stop_task, store_fails, end_reason, launched, fresh, last, end_duration,
              audited>>

\* The variables of the engine, the store and the supervisor, and the ghosts
\* that follow them.
enginevars == <<now_mono, now, current_session, usage, cooldowns, hostvars, next_id,
                balance, warned, expire_due, extended, credits, cooldown_writes,
                stop_requested, stop_calls, shut_down, stop_task, store_fails, end_reason, launched, fresh,
                end_duration>>

\* IpcServer::run and handle_client: a connection is accepted, its role
\* taken from the peer uid, the client registered and announced, and its
\* reader and writer tasks started, the writer with a new receiver of the
\* broadcast channel.
Accept(role) ==
    LET id == next_client + 1
    IN  /\ next_client' = id
        /\ clients' = With(clients, id, role)
        /\ subscribed' = With(subscribed, id, FALSE)
        /\ response_rx' = With(response_rx, id, <<>>)
        /\ event_rx' = With(event_rx, id,
                            [queue |-> <<>>, lagged |-> FALSE, disabled |-> FALSE])
        /\ peers' = With(peers, id, [open |-> TRUE, sent |-> 0, subscribe_sent |-> FALSE,
                             unread |-> <<>>])
        /\ roles' = Append(roles, role)
        /\ delivered' = With(delivered, id, <<>>)
        /\ events_written' = With(events_written, id, <<>>)
        /\ ipc_messages' = Append(ipc_messages, [type |-> "ClientConnected", client_id |-> id])
        /\ UNCHANGED <<corevars, extend_granted, rate_limiter, started_broadcast>>

\* A peer writes a request line, its requests numbered 1, 2, ..; the reader
\* task marks the client subscribed if the command is SubscribeEvents, and
\* forwards the request.
PeerRequest(c, command, arg) ==
    /\ c \in DOMAIN peers
    /\ peers[c].open
    /\ peers' = [peers EXCEPT ![c].sent = @ + 1,
                              ![c].subscribe_sent = @ \/ command = "SubscribeEvents"]
    /\ subscribed' = IF command = "SubscribeEvents" /\ c \in DOMAIN subscribed
                     THEN [subscribed EXCEPT ![c] = TRUE]
                     ELSE subscribed
    /\ ipc_messages' = Append(ipc_messages,
                              [type |-> "Request", client_id |-> c,
                               request_id |-> peers[c].sent + 1,
                               command |-> command, arg |-> arg])
    /\ UNCHANGED <<corevars, clients, next_client, response_rx, roles, delivered,
                   extend_granted, event_rx, rate_limiter, events_written,
                   started_broadcast>>

\* A peer writes a request line and does not wait for the reader task: the
\* line stays in the socket's receive buffer until the task reads it, also
\* after the peer has closed its end.
PeerWrite(c, command, arg) ==
    /\ c \in DOMAIN peers
    /\ peers[c].open
    /\ peers' = [peers EXCEPT ![c].sent = @ + 1,
                              ![c].subscribe_sent = @ \/ command = "SubscribeEvents",
                              ![c].unread = Append(@, [request_id |-> peers[c].sent + 1,
                                                       command |-> command,
                                                       arg |-> arg])]
    /\ UNCHANGED <<corevars, clients, next_client, ipc_messages, response_rx, roles,
                   delivered, extend_granted, subscribed, event_rx, rate_limiter,
                   events_written, started_broadcast>>

\* The reader task of a client takes the next line of its socket: the client
\* is marked subscribed if the command is SubscribeEvents and its handle is
\* still in the table, and the request is forwarded.  The task looks at
\* nothing the writer task sets, and ends at EOF only.
ReaderStep(c) ==
    /\ c \in DOMAIN peers
    /\ peers[c].unread # <<>>
    /\ LET request == Head(peers[c].unread)
       IN  /\ peers' = [peers EXCEPT ![c].unread = Tail(@)]
           /\ subscribed' = IF request.command = "SubscribeEvents" /\ c \in DOMAIN subscribed
                            THEN [subscribed EXCEPT ![c] = TRUE]
                            ELSE subscribed
           /\ ipc_messages' = Append(ipc_messages,
                                     [type |-> "Request", client_id |-> c,
                                      request_id |-> request.request_id,
                                      command |-> request.command, arg |-> request.arg])
    /\ UNCHANGED <<corevars, clients, next_client, response_rx, roles, delivered,
                   extend_granted, event_rx, rate_limiter, events_written,
                   started_broadcast>>

\* A peer closes its socket; the reader task sees EOF and ends, which leaves
\* the client table and the writer task as they are.
PeerClose(c) ==
    /\ c \in DOMAIN peers
    /\ peers[c].open
    /\ peers' = [peers EXCEPT ![c].open = FALSE]
    /\ UNCHANGED <<corevars, clients, next_client, ipc_messages, response_rx, roles,
                   delivered, extend_granted, subscribed, event_rx, rate_limiter,
                   events_written, started_broadcast>>

\* The end of a writer task: the disconnection is announced and the client
\* removed from the table; the task's receivers are dropped.
WriterExit(c) ==
    /\ ipc_messages' = Append(ipc_messages,
                              [type |-> "ClientDisconnected", client_id |-> c])
    /\ clients' = Without(clients, c)
    /\ subscribed' = Without(subscribed, c)
    /\ response_rx' = Without(response_rx, c)
    /\ event_rx' = Without(event_rx, c)

\* The writer task of a client takes a response from its channel and writes
\* it, then selects again on both of its channels; a write to a closed
\* socket fails, and the task ends.
WriterStep(c) ==
    /\ c \in DOMAIN response_rx
    /\ response_rx[c] # <<>>
    /\ IF peers[c].open
       THEN /\ delivered' = [delivered EXCEPT ![c] = Append(@, Head(response_rx[c]))]
            /\ response_rx' = [response_rx EXCEPT ![c] = Tail(@)]
            /\ event_rx' = [event_rx EXCEPT ![c].disabled = FALSE]
            /\ UNCHANGED <<clients, ipc_messages, subscribed>>
       ELSE /\ WriterExit(c)
            /\ UNCHANGED delivered
    /\ UNCHANGED <<corevars, next_client, peers, roles, extend_granted, rate_limiter,
                   events_written, started_broadcast>>

\* The writer task writing every event, subscribed or not.
is_subscribed_always(c) == TRUE

\* The writer task's look at ClientHandle.subscribed when an event arrives.
is_subscribed(c) == c \in DOMAIN subscribed /\ subscribed[c]

\* The writer task polls its receiver of the broadcast channel.  An event
\* is written if the client is subscribed at that moment and dropped if it
\* is not.  When the receiver has lagged, recv returns Err(Lagged), which
\* the pattern Ok(event) does not match: select! disables the branch and
\* goes on waiting for a response, and the receiver resumes at the oldest
\* retained event.
WriterEvent(c) ==
    /\ c \in DOMAIN event_rx
    /\ ~event_rx[c].disabled
    /\ event_rx[c].lagged \/ event_rx[c].queue # <<>>
    /\ IF event_rx[c].lagged
       THEN /\ event_rx' = [event_rx EXCEPT ![c].lagged = FALSE, ![c].disabled = TRUE]
            /\ UNCHANGED <<clients, ipc_messages, subscribed, response_rx, events_written>>
       ELSE LET event == Head(event_rx[c].queue)
            IN  IF is_subscribed(c) /\ ~peers[c].open
                THEN /\ WriterExit(c)
                     /\ UNCHANGED events_written
                ELSE /\ event_rx' = [event_rx EXCEPT ![c].queue = Tail(@)]
                     /\ events_written' =
                            IF is_subscribed(c)
                            THEN [events_written EXCEPT ![c] = Append(@, event)]
                            ELSE events_written
                     /\ UNCHANGED <<clients, ipc_messages, subscribed, response_rx>>
    /\ UNCHANGED <<corevars, next_client, peers, roles, delivered, extend_granted,
                   rate_limiter, started_broadcast>>

\* A handler that only answers: the response is queued, nothing else moves.
Respond(client_id, request_id, command, code) ==
    /\ Emit(client_id, <<Response(request_id, command, code)>>, <<>>)
    /\ last' = code
    /\ audited' = <<>>
    /\ UNCHANGED <<enginevars, extend_granted>>

\* handle_command for the request msg of client c; `by` is the argument of
\* an ExtendCurrent request.
handle_command(c, msg, by) ==
    LET info == get_client_info(c)
        id   == msg.request_id
    IN  CASE msg.command = "GetState" -> Respond(c, id, msg.command, "State")
          [] msg.command = "SubscribeEvents" -> Respond(c, id, msg.command, "Subscribed")
          [] msg.command = "UnsubscribeEvents" -> Respond(c, id, msg.command, "Unsubscribed")
          [] msg.command = "Launch" ->
                \E spawn_ok \in BOOLEAN : handle_Launch(c, id, msg.arg, spawn_ok)
          [] msg.command = "StopCurrent" -> handle_StopCurrent(c, id, msg.arg)
          [] msg.command = "ReloadConfig" ->
                Respond(c, id, msg.command,
                        IF info # <<>> /\ ~can_reload_config(info[1])
                        THEN "PermissionDenied" ELSE "InternalError")
          [] msg.command = "ExtendCurrent" ->
                IF info # <<>> /\ ~can_extend(info[1])
                THEN Respond(c, id, msg.command, "PermissionDenied")
                ELSE LET r    == extend_current(current_session, by, now_mono, now)
                         ok   == r.new_deadline # <<>>
                         code == IF ok THEN "Extended" ELSE "NoActiveSessionOrUnlimited"
                     IN  /\ current_session' = r.session
                         /\ extended' = IF ok THEN extended + by ELSE extended
                         /\ fresh' = IF ok THEN FALSE ELSE fresh
                         /\ extend_granted' = IF ok THEN extend_granted \cup {c}
                                              ELSE extend_granted
                         /\ audited' = IF ok THEN append_audit(<<"SessionExtended">>)
                                       ELSE <<>>
                         /\ last' = code
                         /\ Emit(c, <<Response(id, msg.command, code)>>, <<>>)
                         /\ UNCHANGED <<now_mono, now, usage, cooldowns, hostvars, next_id,
                                        balance, warned, expire_due, credits,
                                        cooldown_writes, stop_requested, stop_calls,
                                        shut_down, stop_task, store_fails, end_reason, launched, end_duration>>

\* handle_ipc_message passing the request on whatever the limiter says.
handle_request_forwarding(c, msg, by) ==
    /\ rate_limiter' = check(rate_limiter, c, now_mono).limiter
    /\ handle_command(c, msg, by)

\* handle_ipc_message(ServerMessage::Request): a request the rate limiter
\* throttles is answered RateLimited, any other goes to handle_command.
handle_request(c, msg, by) ==
    LET lim == check(rate_limiter, c, now_mono)
    IN  /\ rate_limiter' = lim.limiter
        /\ IF lim.allowed
           THEN handle_command(c, msg, by)
           ELSE Respond(c, msg.request_id, msg.command, "RateLimited")

\* IPC branch of Service::run: handle_ipc_message on the next ServerMessage.
HandleIpcMessage(by) ==
    /\ ipc_messages # <<>>
    /\ ipc_messages' = Tail(ipc_messages)
    /\ LET msg == Head(ipc_messages)
           c   == msg.client_id
       IN  IF msg.type = "Request"
           THEN handle_request(c, msg, by)
           ELSE /\ audited' = append_audit(<<msg.type>>)
                /\ last' = ""
                /\ rate_limiter' = IF msg.type = "ClientDisconnected"
                                   THEN Without(rate_limiter, c)
                                   ELSE rate_limiter
                /\ UNCHANGED <<enginevars, clients, next_client, peers, response_rx, roles,
                               delivered, extend_granted, subscribed, event_rx,
                               events_written, started_broadcast>>

-----------------------------------------------------------------------------
(* The clocks *)

\* A second passes: Instant::now() and Local::now() both move on.
AdvanceTime ==
    /\ now_mono' = now_mono + 1
    /\ now' = now + 1
    /\ fresh' = FALSE
    /\ audited' = <<>>
    /\ last' = ""
    /\ UNCHANGED <<current_session, usage, cooldowns, hostvars, next_id, balance,
                   warned, expire_due, extended, credits, cooldown_writes,
                   stop_requested, stop_calls, shut_down, stop_task, store_fails, end_reason, end_duration, ipcvars, launched>>

\* The wall clock is set to any value, forward or backward (NTP, DST, a user);
\* the monotonic clock is not affected.
WallStep ==
    \E v \in 0..MaxWall :
        /\ v # now
        /\ now' = v
        /\ UNCHANGED <<now_mono, current_session, usage, cooldowns, hostvars,
                       next_id, balance, warned, expire_due, extended, credits,
                       cooldown_writes, stop_requested, stop_calls, shut_down, stop_task, store_fails, end_reason, end_duration, ipcvars, audited, launched,
                       fresh, last>>

-----------------------------------------------------------------------------
(* Specifications *)

ExtendBy == 2

\* The service right after Service::new, apart from the wall clock and the
\* usage table it finds in the store.
InitService ==
    /\ now_mono = 0
    /\ current_session = <<>>
    /\ cooldowns = [e \in EntryIds |-> None]
    /\ processes = <<>>
    /\ session_info = {}
    /\ monitor_pending = <<>>
    /\ host_events = <<>>
    /\ next_id = 0
    /\ balance = 0
    /\ warned = <<>>
    /\ expire_due = 0
    /\ extended = 0
    /\ credits = [i \in SessionIds |-> 0]
    /\ cooldown_writes = [i \in SessionIds |-> 0]
    /\ stop_requested = {}
    /\ stop_calls = <<>>
    /\ shut_down = FALSE
    /\ stop_task = NoStop
    /\ store_fails = FALSE
    /\ end_reason = [i \in SessionIds |-> "none"]
    /\ launched = <<>>
    /\ fresh = FALSE
    /\ last = ""
    /\ end_duration = None
    /\ audited = <<>>
    /\ clients = <<>>
    /\ next_client = 0
    /\ peers = <<>>
    /\ ipc_messages = <<>>
    /\ response_rx = <<>>
    /\ roles = <<>>
    /\ delivered = <<>>
    /\ extend_granted = {}
    /\ subscribed = <<>>
    /\ event_rx = <<>>
    /\ rate_limiter = <<>>
    /\ events_written = <<>>
    /\ started_broadcast = {}

Init ==
    /\ now = 0
    /\ usage = <<>>
    /\ InitService

\* The usage tables a store can hold from earlier runs of the service: empty,
\* or one row of the windowed entry.
StoredUsage ==
    {<<>>} \cup {[k \in {<<"slot", d>>} |-> u] : d \in 0..1, u \in 1..MaxStoredUsage}

\* The service started at any second of the first two days, over any of
\* those tables.
WindowInit ==
    /\ now \in 0..(2 * DayLen - 1)
    /\ usage \in StoredUsage
    /\ InitService

\* The inputs of the handlers, within the bounds.
Launch(ids, max_sessions) ==
    \E e \in ids, ok \in BOOLEAN :
        /\ request_launch(e, now).approved => next_id < max_sessions
        /\ CmdLaunch(e, ok)

Stop == \E m \in {"Graceful", "Force"} : CmdStopCurrent(m)

Extend ==
    /\ extended < MaxExtends * ExtendBy
    /\ CmdExtendCurrent(ExtendBy)

Advance(horizon) == now_mono < horizon /\ AdvanceTime

\* The service under a policy of a quota-limited and an unlimited entry, the
\* two clocks in step.
Next ==
    \/ Tick
    \/ HostExited
    \/ Launch({"quiz", "free", UnknownId}, MaxSessions)
    \/ Stop
    \/ Extend
    \/ Advance(MaxMono)
    \/ ChildExits
    \/ MonitorCollect
    \/ MonitorSend

Spec == Init /\ [][Next]_vars

\* The same service, one session, with a wall clock that also jumps.
WallNext ==
    \/ Tick
    \/ HostExited
    \/ Launch({"quiz", "free", UnknownId}, WallSessions)
    \/ Stop
    \/ Extend
    \/ Advance(MaxMono)
    \/ WallStep
    \/ ChildExits
    \/ MonitorCollect
    \/ MonitorSend

WallSpec == Init /\ [][WallNext]_vars

\* The service until a signal ends it: the branches of the select loop while
\* it runs, then the shutdown, after which the process has exited.
ShutdownNext ==
    \/ ~shut_down /\ Tick
    \/ ~shut_down /\ HostExited
    \/ ~shut_down /\ Launch({"quiz", "free", UnknownId}, ShutdownSessions)
    \/ ~shut_down /\ Stop
    \/ ~shut_down /\ Advance(MaxMono)
    \/ ~shut_down /\ ChildExits
    \/ ~shut_down /\ MonitorCollect
    \/ ~shut_down /\ MonitorSend
    \/ Shutdown

ShutdownSpec == Init /\ [][ShutdownNext]_vars

\* One session of the entry with a 10 s limit and warnings at 5 s and 2 s.
ScenarioNext ==
    \/ Tick
    \/ HostExited
    \/ Launch({"game"}, ScenarioSessions)
    \/ Stop
    \/ Extend
    \/ Advance(ScenarioMono)
    \/ ChildExits
    \/ MonitorCollect
    \/ MonitorSend

ScenarioSpec == Init /\ [][ScenarioNext]_vars

\* One session of an entry with availability windows, on the two clocks in
\* step.
WindowNext ==
    \/ Tick
    \/ HostExited
    \/ Launch({"slot", "nap"}, WindowSessions)
    \/ Stop
    \/ Advance(WindowMono)
    \/ ChildExits
    \/ MonitorCollect
    \/ MonitorSend

WindowSpec == WindowInit /\ [][WindowNext]_vars

\* One session of the quota-limited entry and the peers of the IPC socket:
\* connections, request lines, disconnections, and the service's IPC branch.
IpcNext ==
    \/ Launch({"quiz"}, IpcSessions)
    \/ \E role \in ClientRoles : next_client < MaxClients /\ Accept(role)
    \/ \E c \in DOMAIN peers, command \in IpcCommands :
          peers[c].sent < MaxRequests /\ PeerRequest(c, command, "")
    \/ \E c \in DOMAIN peers : PeerClose(c)
    \/ \E c \in DOMAIN response_rx : WriterStep(c)
    \/ \E c \in DOMAIN event_rx : WriterEvent(c)
    \/ HandleIpcMessage(ExtendBy)

IpcSpec == Init /\ [][IpcNext]_vars

\* The service with one session of the 3 s entry and a peer that may
\* subscribe to events: the select loop, the host tasks and the peer's reader
\* and writer tasks.
EventNext ==
    \/ Tick
    \/ HostExited
    \/ Launch({"quiz"}, EventSessions)
    \/ CmdStopCurrent("Graceful")
    \/ Advance(EventMono)
    \/ ChildExits
    \/ MonitorCollect
    \/ MonitorSend
    \/ next_client < MaxClients /\ Accept("Shell")
    \/ \E c \in DOMAIN peers, command \in {"SubscribeEvents", "GetState"} :
          peers[c].sent < EventRequests /\ PeerRequest(c, command, "")
    \/ \E c \in DOMAIN peers : PeerClose(c)
    \/ \E c \in DOMAIN response_rx : WriterStep(c)
    \/ \E c \in DOMAIN event_rx : WriterEvent(c)
    \/ HandleIpcMessage(ExtendBy)

EventSpec == Init /\ [][EventNext]_vars

\* Launch requests waiting in the message queue.
PendingLaunches ==
    Cardinality({i \in 1..Len(ipc_messages) :
                    ipc_messages[i].type = "Request" /\ ipc_messages[i].command = "Launch"})

\* The requests of a peer that change the engine: launch the 3 s entry, stop
\* the session, extend it.
EngineRequests ==
    { <<"Launch", "quiz">>, <<"StopCurrent", "Graceful">>, <<"ExtendCurrent", "">> }

\* The service with an admin peer that writes requests faster than the rate
\* limiter allows.
RateNext ==
    \/ Tick
    \/ HostExited
    \/ Advance(RateMono)
    \/ ChildExits
    \/ MonitorCollect
    \/ MonitorSend
    \/ next_client < MaxClients /\ Accept("Admin")
    \/ \E c \in DOMAIN peers, rq \in EngineRequests :
          /\ peers[c].sent < RateRequests
          /\ rq[1] = "Launch" => next_id + PendingLaunches < RateSessions
          /\ PeerRequest(c, rq[1], rq[2])
    \/ \E c \in DOMAIN peers : PeerClose(c)
    \/ \E c \in DOMAIN response_rx : WriterStep(c)
    \/ \E c \in DOMAIN event_rx : WriterEvent(c)
    \/ HandleIpcMessage(ExtendBy)

RateSpec == Init /\ [][RateNext]_vars

\* The service with two peers that each write several requests, among the
\* ticks and the host events of a session.
OrderNext ==
    \/ Tick
    \/ HostExited
    \/ Launch({"quiz"}, OrderSessions)
    \/ MonitorSend
    \/ next_client < OrderClients /\ Accept("Shell")
    \/ \E c \in DOMAIN peers, rq \in {<<"GetState", "">>, <<"StopCurrent", "Graceful">>} :
          peers[c].sent < MaxRequests /\ PeerRequest(c, rq[1], rq[2])
    \/ \E c \in DOMAIN response_rx : WriterStep(c)
    \/ \E c \in DOMAIN event_rx : WriterEvent(c)
    \/ HandleIpcMessage(ExtendBy)

OrderSpec == Init /\ [][OrderNext]_vars

\* Service::run polls the ticker (100 ms) and the host event channel for as
\* long as the service runs, and the monitor task polls its children every
\* 100 ms: none of these steps stays enabled forever without being taken.
Fairness ==
    /\ WF_vars(Tick)
    /\ WF_vars(HostExited)
    /\ WF_vars(MonitorCollect)
    /\ WF_vars(MonitorSend)

FairNext ==
    \/ Tick
    \/ HostExited
    \/ Launch({"quiz"}, FairSessions)
    \/ Stop
    \/ Extend
    \/ Advance(FairMono)
    \/ ChildExits
    \/ MonitorCollect
    \/ MonitorSend

\* One session of the quota-limited entry, under the schedule above.
FairSpec == Init /\ [][FairNext]_vars /\ Fairness

\* The supervisor alone: a child is spawned for an approved launch, ends on
\* its own or not, the monitor polls the table, and LinuxHost::stop is
\* called for the child's handle, in either mode and with a timeout > 0, up
\* to MaxStopCalls times.
StopNext ==
    \/ Launch({"quiz"}, StopSessions)
    \/ ChildExits
    \/ MonitorCollect
    \/ MonitorSend
    \/ \E mode \in {"Graceful", "Force"}, timeout \in 1..MaxTimeout :
          /\ current_session # <<>>
          /\ current_session[1].host_handle # <<>>
          /\ stop_task.calls < MaxStopCalls
          /\ StopEnter(current_session[1].host_handle[1], mode, timeout)
    \/ StopTerm
    \/ StopPoll
    \/ StopWake
    \/ StopForce
    \/ StopReturn

StopSpec == Init /\ [][StopNext]_vars

\* The monitor is a task that polls the table every 100 ms for as long as
\* the service runs: neither half of its poll waits for ever.
MonitorFairness == WF_vars(MonitorCollect) /\ WF_vars(MonitorSend)

StopFairSpec == StopSpec /\ MonitorFairness

\* The store starts to fail: from now on add_usage, set_cooldown_until and
\* append_audit return Err (a full disk, a locked or corrupt database).
StoreBreaks ==
    /\ ~store_fails
    /\ store_fails' = TRUE
    /\ UNCHANGED <<now_mono, now, current_session, usage, cooldowns, hostvars, next_id,
                   balance, warned, expire_due, extended, credits, cooldown_writes,
                   stop_requested, stop_calls, shut_down, stop_task, end_reason, launched,
                   fresh, last, end_duration, audited, clients, next_client, peers,
                   ipc_messages, response_rx, roles, delivered, extend_granted,
                   subscribed, event_rx, rate_limiter, events_written,
                   started_broadcast>>

\* The store works again.
StoreRecovers ==
    /\ store_fails
    /\ store_fails' = FALSE
    /\ UNCHANGED <<now_mono, now, current_session, usage, cooldowns, hostvars, next_id,
                   balance, warned, expire_due, extended, credits, cooldown_writes,
                   stop_requested, stop_calls, shut_down, stop_task, end_reason, launched,
                   fresh, last, end_duration, audited, clients, next_client, peers,
                   ipc_messages, response_rx, roles, delivered, extend_granted,
                   subscribed, event_rx, rate_limiter, events_written,
                   started_broadcast>>

\* The service with a store whose writes fail and recover at any moment.
StoreNext ==
    \/ Tick
    \/ HostExited
    \/ Launch({"quiz", "free"}, StoreSessions)
    \/ Stop
    \/ Advance(StoreMono)
    \/ ChildExits
    \/ MonitorCollect
    \/ MonitorSend
    \/ StoreBreaks
    \/ StoreRecovers

StoreSpec == Init /\ [][StoreNext]_vars

\* Two peers that write requests faster than the rate limiter allows, while
\* the monotonic clock passes refill intervals.
BucketNext ==
    \/ Advance(BucketMono)
    \/ next_client < OrderClients /\ Accept("Shell")
    \/ \E c \in DOMAIN peers :
          peers[c].sent < RateRequests /\ PeerRequest(c, "GetState", "")
    \/ \E c \in DOMAIN response_rx : WriterStep(c)
    \/ HandleIpcMessage(ExtendBy)

BucketSpec == Init /\ [][BucketNext]_vars

\* Client c subscribed, and the newest request it wrote is an
\* UnsubscribeEvents whose Unsubscribed response it has received.
UnsubscribeConfirmed(c) ==
    /\ c \in DOMAIN peers
    /\ peers[c].subscribe_sent
    /\ \E i \in 1..Len(delivered[c]) :
          delivered[c][i] = Response(peers[c].sent, "UnsubscribeEvents", "Unsubscribed")

\* A peer that writes subscribe and unsubscribe requests, and a launch that
\* is requested only once the peer has written its last request and holds
\* the Unsubscribed response to it, so that every event of the run is
\* broadcast after that response.
UnsubNext ==
    \/ /\ next_client = MaxClients
       /\ \A c \in DOMAIN peers : peers[c].sent = MaxRequests /\ UnsubscribeConfirmed(c)
       /\ Launch({"quiz"}, UnsubSessions)
    \/ Tick
    \/ Advance(EventMono)
    \/ next_client < MaxClients /\ Accept("Shell")
    \/ \E c \in DOMAIN peers, command \in {"SubscribeEvents", "UnsubscribeEvents"} :
          peers[c].sent < MaxRequests /\ PeerRequest(c, command, "")
    \/ \E c \in DOMAIN response_rx : WriterStep(c)
    \/ \E c \in DOMAIN event_rx : WriterEvent(c)
    \/ HandleIpcMessage(ExtendBy)

UnsubSpec == Init /\ [][UnsubNext]_vars

\* The peers of the IPC socket with the socket's receive buffer between a
\* peer and its reader task: a peer writes request lines and may close
\* before the reader task has taken them.
ReaderNext ==
    \/ Launch({"quiz"}, IpcSessions)
    \/ next_client < MaxClients /\ Accept("Shell")
    \/ \E c \in DOMAIN peers, command \in IpcCommands :
          peers[c].sent < MaxRequests /\ PeerWrite(c, command, "")
    \/ \E c \in DOMAIN peers : ReaderStep(c)
    \/ \E c \in DOMAIN peers : PeerClose(c)
    \/ \E c \in DOMAIN response_rx : WriterStep(c)
    \/ \E c \in DOMAIN event_rx : WriterEvent(c)
    \/ HandleIpcMessage(ExtendBy)

ReaderSpec == Init /\ [][ReaderNext]_vars

\* The tokio runtime runs a writer task whenever one of its channels has a
\* value for it, and Service::run takes the next message of the IPC server
\* whenever there is one.
CloseFairness ==
    /\ WF_vars(\E c \in 1..MaxClients : WriterStep(c))
    /\ WF_vars(\E c \in 1..MaxClients : WriterEvent(c))
    /\ WF_vars(HandleIpcMessage(ExtendBy))

CloseNext ==
    \/ Launch({"quiz"}, CloseSessions)
    \/ next_client < MaxClients /\ Accept("Shell")
    \/ \E c \in DOMAIN peers :
          peers[c].sent < CloseRequests /\ PeerRequest(c, "GetState", "")
    \/ \E c \in DOMAIN peers : PeerClose(c)
    \/ \E c \in DOMAIN response_rx : WriterStep(c)
    \/ \E c \in DOMAIN event_rx : WriterEvent(c)
    \/ HandleIpcMessage(ExtendBy)

\* A peer that connects, asks for the state at most once without
\* subscribing, and closes its socket, under the schedule above.
CloseSpec == Init /\ [][CloseNext]_vars /\ CloseFairness

-----------------------------------------------------------------------------
(* Properties *)

Active == current_session # <<>>

Limited == Active /\ current_session[1].plan.max_duration # None

Unlimited == Active /\ current_session[1].plan.max_duration = None

Elapsed == now_mono - current_session[1].started_at_mono

NoRepeat(seq) == \A i, j \in 1..Len(seq) : i # j => seq[i] # seq[j]

PlanThresholds(cs) ==
    [i \in 1..Len(cs.plan.warnings) |-> cs.plan.warnings[i].seconds_before]

HasCooldown(entry_id) ==
    get_entry(entry_id) # <<>> /\ get_entry(entry_id)[1].cooldown # None

\* C1: at every prefix of the broadcast sequence the number of SessionStarted
\* events minus the number of SessionEnded events is 0 or 1.
C1_StartedMinusEnded == balance \in {0, 1}

\* C2: while a session is active, in whichever state, request_launch denies
\* every entry of the policy with a SessionActive reason and approves no id at
\* all, and no step puts another session in the place of the active one.
C2_LaunchDeniedWhileActive ==
    /\ [](Active =>
            /\ current_session[1].state \in {"Launching", "Running", "Warned", "Expiring"}
            /\ \A id \in LaunchIds :
                 LET d == request_launch(id, now)
                 IN  /\ ~d.approved
                     /\ d.plan = <<>>
                     /\ id \in EntryIds =>
                           \E i \in 1..Len(d.reasons) : d.reasons[i].code = "SessionActive")
    /\ [][Active /\ current_session' # <<>> =>
            current_session'[1].plan.session_id = current_session[1].plan.session_id]_vars

C2_Witness ==
    /\ Active
    /\ current_session[1].state = "Expiring"
    /\ last = "LaunchDenied"

Overdue(sid) ==
    /\ Limited
    /\ current_session[1].plan.session_id = sid
    /\ current_session[1].host_handle # <<>>
    /\ now_mono >= current_session[1].deadline_mono

Expiring(sid) ==
    /\ Active
    /\ current_session[1].plan.session_id = sid
    /\ current_session[1].state = "Expiring"

\* C3: with ticks, host events and the monitor running, a session whose
\* monotonic deadline has passed gets its handle passed to host.stop unless it
\* stops being overdue first (ended or extended); an Expiring session ends;
\* and the Exited event handled while the session is Expiring removes it with
\* a SessionEnded of reason Expired, leaving no active session.
C3_ExpiryEnforced ==
    /\ \A sid \in SessionIds :
          Overdue(sid) ~> (sid \in stop_requested \/ ~Overdue(sid))
    /\ \A sid \in SessionIds :
          Expiring(sid) ~> (end_reason[sid] # "none" /\ ~Expiring(sid))
    /\ [][\A sid \in SessionIds :
            Expiring(sid) /\ host_events # <<>> /\ host_events' = Tail(host_events)
                => current_session' = <<>> /\ end_reason'[sid] = "Expired"]_vars

C3_Witness ==
    /\ end_reason[1] = "Expired"
    /\ 1 \in stop_requested
    /\ ~Active
    /\ request_launch(launched[1], now).approved

\* C4: a tick emits ExpireDue only for a session with a deadline that has
\* passed and a state other than Expiring and Ended, and moves it to Expiring;
\* after a tick at or past the deadline the session is Expiring with exactly
\* one ExpireDue emitted; no session gets a second ExpireDue.
C4_ExpireDueExactlyOnce ==
    /\ [](expire_due <= 1)
    /\ [](Active => (current_session[1].state = "Expiring" <=> expire_due = 1))
    /\ [](fresh /\ Limited /\ now_mono >= current_session[1].deadline_mono =>
            current_session[1].state = "Expiring" /\ expire_due = 1)
    /\ [][expire_due' > expire_due =>
            /\ Limited
            /\ now_mono >= current_session[1].deadline_mono
            /\ current_session[1].state \notin {"Expiring", "Ended"}
            /\ current_session' # <<>>
            /\ current_session'[1].state = "Expiring"]_vars

C4_Witness ==
    /\ fresh
    /\ Limited
    /\ now_mono > current_session[1].deadline_mono
    /\ current_session[1].state = "Expiring"
    /\ expire_due = 1

\* C5: whatever the wall clock does, the monotonic deadline of a session of
\* max duration M started at s is s + M plus the extensions granted, no
\* ExpireDue is emitted before s + M, a tick at or after the deadline leaves
\* the session Expiring, every warning T is emitted no earlier than M - T after
\* s and has been emitted once a tick has run at or after that, and a change
\* of the wall clock alone changes nothing of the session.
C5_WallClockIndependent ==
    /\ [](Limited =>
            LET cs == current_session[1]
                M  == cs.plan.max_duration
            IN  /\ cs.deadline_mono = cs.started_at_mono + M + extended
                /\ expire_due > 0 => Elapsed >= M
                /\ fresh /\ now_mono >= cs.started_at_mono + M + extended
                      => cs.state = "Expiring"
                /\ \A i \in 1..Len(warned) : Elapsed >= M - warned[i]
                /\ fresh => \A i \in 1..Len(cs.plan.warnings) :
                      LET T == cs.plan.warnings[i].seconds_before
                      IN  T < M /\ Elapsed >= M - T => Contains(warned, T))
    /\ [][now' # now /\ now_mono' = now_mono =>
            UNCHANGED <<current_session, warned, expire_due>>]_vars

C5_Witness ==
    /\ Limited
    /\ now < current_session[1].started_at
    /\ fresh
    /\ current_session[1].state = "Expiring"
    /\ warned # <<>>

\* C6: each threshold_seconds value appears in at most one Warning event of a
\* session, also when the plan lists the same seconds_before twice.
C6_ThresholdOnce == NoRepeat(warned)

\* C7: no Warning of a session with finite max duration M carries a threshold
\* T >= M.
C7_NoThresholdAtOrAboveMax ==
    Limited => \A i \in 1..Len(warned) :
                  warned[i] < current_session[1].plan.max_duration

C7_Witness ==
    /\ Limited
    /\ current_session[1].plan.max_duration <= 2
    /\ Contains(PlanThresholds(current_session[1]), 2)
    /\ fresh
    /\ current_session[1].state = "Expiring"
    /\ warned = <<>>

\* C8: the warning for a threshold T < M is never emitted before M - T has
\* elapsed and has been emitted once a tick has run with M - T elapsed; with
\* thresholds 5 and 2 and M = 10, Warning(5) comes before Warning(2).
C8_WarningAtFirstTick ==
    Limited =>
        LET cs == current_session[1]
            M  == cs.plan.max_duration
        IN  /\ \A i \in 1..Len(warned) : Elapsed >= M - warned[i]
            /\ fresh => \A i \in 1..Len(cs.plan.warnings) :
                  LET T == cs.plan.warnings[i].seconds_before
                  IN  T < M /\ Elapsed >= M - T => Contains(warned, T)
            /\ M = 10 /\ PlanThresholds(cs) = <<5, 2>>
                  => warned \in {<<>>, <<5>>, <<5, 2>>}

C8_Witness ==
    /\ Limited
    /\ current_session[1].plan.max_duration = 10
    /\ warned = <<5, 2>>
    /\ current_session[1].state = "Warned"

\* C9: an unlimited session gets no Warning and no ExpireDue, stays Running
\* with no deadline, and is changed by no step but one that ends it through
\* stop_current or notify_session_exited.
C9_UnlimitedNeverExpires ==
    /\ [](Unlimited =>
            /\ warned = <<>>
            /\ expire_due = 0
            /\ current_session[1].state = "Running"
            /\ current_session[1].deadline_mono = None)
    /\ [][Unlimited /\ current_session' # current_session =>
            /\ current_session' = <<>>
            /\ end_reason'[current_session[1].plan.session_id]
                  \in {"UserStop", "AdminStop", "ProcessExited"}]_vars

C9_Witness ==
    /\ Unlimited
    /\ fresh
    /\ Elapsed >= 3

\* C10: a session that has ended has had add_usage called exactly once and,
\* when its entry has a cooldown, set_cooldown_until exactly once (never
\* otherwise), both in the step that broadcast its SessionEnded; a session
\* that has not ended has had neither.
C10_CreditedOnce ==
    \A sid \in 1..next_id :
        LET ended == end_reason[sid] # "none"
            is_current == Active /\ current_session[1].plan.session_id = sid
        IN  /\ ended <=> ~is_current
            /\ credits[sid] = IF ended THEN 1 ELSE 0
            /\ cooldown_writes[sid] = IF ended /\ HasCooldown(launched[sid]) THEN 1 ELSE 0

C10_Witness ==
    /\ next_id = 1
    /\ launched[1] = "free"
    /\ end_reason[1] \in {"UserStop", "AdminStop"}
    /\ 1 \in stop_requested
    /\ 1 \notin DOMAIN processes
    /\ monitor_pending = <<>>
    /\ host_events = <<>>
    /\ credits[1] = 1
    /\ cooldown_writes[1] = 1

\* C11: when a session ends, the duration in its SessionEnded event and the
\* duration added to the usage row of its entry for the current day are both
\* the monotonic time at the end minus the monotonic time of its start,
\* whatever the wall clock did meanwhile; no other usage row changes.
C11_DurationIsMonotonicElapsed ==
    [][end_reason' # end_reason =>
          LET sid == CHOOSE i \in SessionIds : end_reason'[i] # end_reason[i]
              eid == launched'[sid]
              day == date_naive(now)
              d   == IF Active THEN Elapsed ELSE 0
          IN  /\ end_duration' = d
              /\ get_usage(usage', eid, day) = get_usage(usage, eid, day) + d
              /\ DOMAIN usage' = DOMAIN usage \cup {<<eid, day>>}
              /\ \A k \in DOMAIN usage : k # <<eid, day>> => usage'[k] = usage[k]]_vars

\* A session just stopped after running longer than the wall clock shows.
C11_Witness ==
    /\ last = "Stopped"
    /\ end_duration > 0
    /\ now < end_duration
    /\ get_usage(usage, launched[1], date_naive(now)) = end_duration

C15_ExtendAddsBy ==
    /\ [](LET r == extend_current(current_session, ExtendBy, now_mono, now)
          IN  IF Limited
              THEN /\ r.new_deadline = <<current_session[1].deadline + ExtendBy>>
                   /\ r.session = <<[current_session[1] EXCEPT
                                        !.deadline_mono = @ + ExtendBy,
                                        !.deadline = @ + ExtendBy]>>
              ELSE /\ r.new_deadline = <<>>
                   /\ r.session = current_session)
    /\ [][/\ (last' = "Extended" /\ extended' # extended) =>
                /\ Limited
                /\ extended' = extended + ExtendBy
                /\ current_session' = <<[current_session[1] EXCEPT
                                            !.deadline_mono = @ + ExtendBy,
                                            !.deadline = @ + ExtendBy]>>
          /\ last' = "NoActiveSessionOrUnlimited" =>
                /\ ~Limited
                /\ UNCHANGED <<current_session, usage, cooldowns, extended>>]_vars

\* An extension has just been granted to a session with a deadline.
C15_Witness ==
    /\ last = "Extended"
    /\ Limited
    /\ extended = ExtendBy
    /\ current_session[1].deadline_mono =
          current_session[1].started_at_mono + current_session[1].plan.max_duration + ExtendBy

Occurrences(seq, x) == Cardinality({i \in 1..Len(seq) : seq[i] = x})

\* C16: extend_current leaves the thresholds already issued (warnings_issued)
\* as they are, and a threshold that has been issued to a session is not
\* issued to it again by any later step, extensions included.
C16_ExtendKeepsWarningsIssued ==
    /\ [](Active =>
            extend_current(current_session, ExtendBy, now_mono, now).session[1].warnings_issued
               = current_session[1].warnings_issued)
    /\ [][(Active /\ launched' = launched) =>
            \A k \in 1..Len(current_session[1].warnings_issued) :
               LET T == current_session[1].warnings_issued[k]
               IN  /\ Occurrences(warned', T) = Occurrences(warned, T)
                   /\ current_session' # <<>> =>
                         Contains(current_session'[1].warnings_issued, T)]_vars

\* A session was warned, then extended so that more time is left than the
\* threshold says, and a tick has run since.
C16_Witness ==
    /\ Active
    /\ fresh
    /\ extended = ExtendBy
    /\ current_session[1].warnings_issued # <<>>
    /\ warned # <<>>
    /\ time_remaining(current_session[1], now_mono) > warned[1]

\* C18 (as the specification states it): after a launch the engine approved
\* and the supervisor failed to spawn, the session has been ended with reason
\* LaunchFailed and the engine holds no session.
C18_SpawnFailureEndsLaunchFailed ==
    last = "HostError" => (~Active /\ end_reason[next_id] = "LaunchFailed")

ExitCodes == {Signalled, ExitedOk, <<-1>>}

\* C19: notify_session_exited ends the active session with reason Expired if
\* its state was Expiring and with ProcessExited(exit_code) in every other
\* state; with no session it returns nothing and changes nothing.  The
\* handler of an Exited host event does exactly this.
C19_ExitReason ==
    /\ [](\A code \in ExitCodes :
            LET r == notify_session_exited(current_session, code, now_mono, now)
            IN  IF Active
                THEN /\ r.ended
                     /\ r.session = <<>>
                     /\ r.event.session_id = current_session[1].plan.session_id
                     /\ r.event.reason =
                           IF current_session[1].state = "Expiring"
                           THEN [kind |-> "Expired"]
                           ELSE [kind |-> "ProcessExited", exit_code |-> code]
                ELSE /\ ~r.ended
                     /\ r.session = <<>>
                     /\ r.usage = usage
                     /\ r.cooldowns = cooldowns
                     /\ r.audit = <<>>
                     /\ r.event.type = "None")
    /\ [][(host_events # <<>> /\ host_events' = Tail(host_events)) =>
            IF Active
            THEN /\ ~Active'
                 /\ end_reason'[current_session[1].plan.session_id] =
                       IF current_session[1].state = "Expiring"
                       THEN "Expired" ELSE "ProcessExited"
            ELSE UNCHANGED <<current_session, usage, cooldowns, end_reason, balance,
                             credits, cooldown_writes>>]_vars

\* A session that had been told to expire has just been ended by the exit of
\* its process.
C19_Witness ==
    /\ ~Active
    /\ expire_due = 1
    /\ end_reason[1] = "Expired"
    /\ audited = <<"SessionEnded">>
    /\ last = ""

\* C20: stop_current with no active session returns NoActiveSession (answered
\* with the NoActiveSession error), leaves usage, cooldowns and the audit log
\* as they are, and can be repeated: whenever there is no session the command
\* can be handled and is answered that way.
C20_StopWithoutSession ==
    /\ [](~Active =>
            /\ \A reason \in {[kind |-> "UserStop"], [kind |-> "AdminStop"]} :
                  LET r == stop_current(current_session, reason, now_mono, now)
                  IN  /\ ~r.ended
                      /\ r.session = <<>>
                      /\ r.usage = usage
                      /\ r.cooldowns = cooldowns
                      /\ r.audit = <<>>
            /\ \A m \in {"Graceful", "Force"} :
                  ENABLED (CmdStopCurrent(m) /\ last' = "NoActiveSession"))
    /\ [][last' = "NoActiveSession" =>
            /\ ~Active
            /\ audited' = <<>>
            /\ UNCHANGED <<current_session, usage, cooldowns, end_reason, balance,
                           credits, cooldown_writes, stop_requested>>]_vars

\* A session was stopped, and a further stop has just been answered with
\* NoActiveSession.
C20_Witness ==
    /\ ~Active
    /\ last = "NoActiveSession"
    /\ end_reason[1] \in {"UserStop", "AdminStop"}
    /\ usage # <<>>

\* The limits that are defined for an entry at wall time t: max_run, the time
\* remaining_in_window gives when the entry is not "always", and the daily
\* quota less the usage of the day.
DefinedLimits(e, t) ==
    (IF e.max_run # None THEN {e.max_run} ELSE {})
    \cup (IF ~e.always /\ remaining_in_window(e, t) # None
          THEN {remaining_in_window(e, t)} ELSE {})
    \cup (IF e.daily_quota # None
          THEN {e.daily_quota - get_usage(usage, e.id, date_naive(t))} ELSE {})

LeastLimit(e, t) ==
    IF DefinedLimits(e, t) = {} THEN None
    ELSE CHOOSE m \in DefinedLimits(e, t) : \A x \in DefinedLimits(e, t) : m <= x

C17_ShellCannotExtend ==
    /\ \A c \in extend_granted : roles[c] = "Admin"
    /\ \A c \in DOMAIN delivered :
          roles[c] = "Shell" =>
             \A k \in 1..Len(delivered[c]) :
                delivered[c][k].command \in {"ExtendCurrent", "ReloadConfig"} =>
                   delivered[c][k].code = "PermissionDenied"

\* C28 (as the specification states it): handling an Exited event whose pid
\* is not the pid of the active session's handle leaves the active session in
\* the engine; only the exit of the session's own child ends it.
C28_StaleExitKeepsSession ==
    [][ ( /\ host_events # <<>>
          /\ host_events' = Tail(host_events)
          /\ Active
          /\ current_session[1].host_handle # <<>>
          /\ Head(host_events).pid # current_session[1].host_handle[1].pid )
        => current_session' = current_session ]_vars

\* Position of a SessionState in the order of shepherd-api's enum.
StateRank(state) ==
    CASE state = "Launching" -> 1
      [] state = "Running"   -> 2
      [] state = "Warned"    -> 3
      [] state = "Expiring"  -> 4
      [] state = "Ended"     -> 5

C29_GracefulFailureEscalates ==
    \A i \in 1..Len(stop_calls) :
       (stop_calls[i].mode = "Graceful" /\ stop_calls[i].result # "Ok") =>
          /\ i < Len(stop_calls)
          /\ stop_calls[i + 1].mode = "Force"
          /\ stop_calls[i + 1].pid = stop_calls[i].pid

\* C26 (as the specification states it): once the service has shut down and
\* logged ServiceStopped, no session is left active in the engine: every
\* session that was launched has been ended (the one active at the signal
\* with reason ServiceShutdown) and credited, and its handle was given to the
\* supervisor's stop.
C26_ShutdownEndsSession ==
    shut_down =>
       /\ ~Active
       /\ \A sid \in 1..next_id :
             /\ end_reason[sid] # "none"
             /\ credits[sid] = 1

\* The events of session sid in the order a client's socket received them.
EventOrder(seq) ==
    \A i, j \in 1..Len(seq) :
       (i < j /\ seq[i].session_id = seq[j].session_id) =>
          /\ ~(seq[i].type = "WarningIssued" /\ seq[j].type = "SessionStarted")
          /\ ~(seq[i].type = "SessionEnded" /\
               seq[j].type \in {"SessionStarted", "WarningIssued"})

\* C21 (as the specification states it): in the events written to a
\* subscriber, SessionStarted of a session comes before its WarningIssued
\* events and those before its SessionEnded, and a SessionEnded is written
\* only for a session whose SessionStarted has been broadcast.
C21_EventOrder ==
    \A c \in DOMAIN events_written :
       /\ EventOrder(events_written[c])
       /\ \A k \in 1..Len(events_written[c]) :
             events_written[c][k].type = "SessionEnded" =>
                events_written[c][k].session_id \in started_broadcast

\* C24: an event is written to a client's socket only after its peer has
\* sent SubscribeEvents; the socket of a peer that never subscribed receives
\* responses only.
C24_EventsOnlyToSubscribers ==
    \A c \in DOMAIN events_written :
       events_written[c] # <<>> => peers[c].subscribe_sent

\* A subscribed peer has received an event and the response to its
\* SubscribeEvents request.
C24_Witness ==
    \E c \in DOMAIN events_written :
       /\ events_written[c] # <<>>
       /\ peers[c].subscribe_sent
       /\ delivered[c] # <<>>

\* C25 (as the specification states it): when the writer task of a
\* subscribed client finds that its receiver has fallen behind the broadcast
\* channel, the client is disconnected: the step that takes the lag off the
\* receiver removes the client from the table.
C25_LaggedPeerDisconnected ==
    [][ \A c \in DOMAIN event_rx :
           ( /\ event_rx[c].lagged
             /\ is_subscribed(c)
             /\ c \in DOMAIN event_rx' => ~event_rx'[c].lagged )
           => c \notin DOMAIN clients' ]_vars

\* C23: when the rate limiter throttles the request at the head of the
\* message queue, handling it queues an error response RateLimited with the
\* request's id for its client and nothing else: the session, the usage, the
\* cooldowns, the supervisor, the subscriptions and the broadcast channel are
\* as before.
C23_ThrottledNotForwarded ==
    [][ ( /\ ipc_messages # <<>>
          /\ ipc_messages' = Tail(ipc_messages)
          /\ Head(ipc_messages).type = "Request"
          /\ ~check(rate_limiter, Head(ipc_messages).client_id, now_mono).allowed )
        => /\ response_rx' =
                 send_response(Head(ipc_messages).client_id,
                               Response(Head(ipc_messages).request_id,
                                        Head(ipc_messages).command, "RateLimited"))
           /\ UNCHANGED <<current_session, usage, cooldowns, next_id, extended, hostvars,
                          subscribed, event_rx, credits, cooldown_writes>> ]_vars

\* A StopCurrent request was throttled while a session was active: the peer
\* has the RateLimited response and the session is still there.
C23_Witness ==
    /\ Active
    /\ \E c \in DOMAIN delivered :
          \E k \in 1..Len(delivered[c]) :
             /\ delivered[c][k].code = "RateLimited"
             /\ delivered[c][k].command = "StopCurrent"
             /\ delivered[c][k].request_id = k

\* C22: the responses written to a peer's socket carry the request ids of
\* its requests in the order it sent them: the i-th response written answers
\* its i-th request, whatever the other peer, the ticks and the host events
\* do in between.
C22_ResponsesInRequestOrder ==
    \A c \in DOMAIN delivered :
       \A k \in 1..Len(delivered[c]) : delivered[c][k].request_id = k

\* Two peers have each received the responses to two requests, and a host
\* event was handled on the way.
C22_Witness ==
    /\ DOMAIN delivered = {1, 2}
    /\ \A c \in DOMAIN delivered : Len(delivered[c]) = 2
    /\ \E sid \in SessionIds : end_reason[sid] # "none"
    /\ host_events = <<>>
    /\ stop_requested # {}

\* C30 (as the specification states it): once a peer's connection has
\* reached EOF, its writer task ends too: the client is eventually removed
\* from the client table (and ClientDisconnected posted with the removal),
\* also when the peer is not subscribed and no response is pending.
C30_ClosedPeerRemoved ==
    \A c \in 1..MaxClients :
       (c \in DOMAIN peers /\ ~peers[c].open) ~> (c \notin DOMAIN clients)

\* C31: a client's ClientConnected is posted before any of its requests, and
\* once its ClientDisconnected has been posted and its record removed from
\* the client table no further Request of that client is forwarded: every
\* Request that enters the message queue belongs to a client still in the
\* table.
C31_NoRequestAfterDisconnect ==
    [][\A c \in 1..MaxClients :
         (/\ Len(ipc_messages') = Len(ipc_messages) + 1
          /\ ipc_messages'[Len(ipc_messages')].type = "Request"
          /\ ipc_messages'[Len(ipc_messages')].client_id = c)
         => c \in DOMAIN clients]_vars

\* C32: an approved launch whose spawn fails charges nothing: the usage the
\* store reports for the entry today and the entry's cooldown row are what
\* they were before the launch request.
C32_FailedSpawnChargesNothing ==
    [][(next_id' = next_id + 1 /\ last' = "HostError") =>
          LET entry_id == launched'[next_id']
              today    == date_naive(now)
          IN  /\ get_usage(usage', entry_id, today) = get_usage(usage, entry_id, today)
              /\ cooldowns'[entry_id] = cooldowns[entry_id]]_vars

\* C33: whenever a tick emits a Warning event with threshold T, the
\* time_remaining the event carries is at most T seconds, whatever ticks
\* and extensions came before.
C33_WarningWithinThreshold ==
    [][Len(warned') > Len(warned) =>
          LET events == tick(current_session, now_mono).events
          IN  \A i \in 1..Len(events) :
                 events[i].type = "Warning" =>
                    events[i].time_remaining <= events[i].threshold_seconds]_vars

\* C34: once a subscribed peer has sent unsubscribe_events and received
\* Unsubscribed, no event broadcast later is written to its socket until it
\* subscribes again; under UnsubSpec every event is broadcast after that
\* response, so a peer holding it has been written no event.
C34_NoEventAfterUnsubscribe ==
    \A c \in DOMAIN events_written :
       (peers[c].sent = MaxRequests /\ UnsubscribeConfirmed(c)) => events_written[c] = <<>>

\* The instant at which window w, which contains the instant t, ends: its
\* end minute of the same day, or of the next day for the evening part of a
\* window that wraps past midnight.
WindowEndAt(w, t) ==
    LET midnight == date_naive(t) * DayLen
    IN  IF w.start > w.end /\ from_naive_time(t) >= w.start
        THEN midnight + DayLen + as_seconds_from_midnight(w.end)
        ELSE midnight + as_seconds_from_midnight(w.end)

\* C35: for an entry restricted to time windows, the deadline of every
\* approved session is not later than the end of a window that contains
\* the launch time, at a resolution of one second.
C35_DeadlineWithinWindow ==
    [][(next_id' = next_id + 1 /\ last' = "LaunchApproved") =>
          LET entry   == get_entry(launched'[next_id'])[1]
              session == current_session'[1]
          IN  (~entry.always /\ entry.windows # <<>>) =>
                 /\ session.deadline # None
                 /\ \E i \in 1..Len(entry.windows) :
                       /\ TimeWindow_contains(entry.windows[i], now)
                       /\ session.deadline <= WindowEndAt(entry.windows[i], now)]_vars

\* C36: every peer has its own bucket, which starts with MaxTokens; a bucket
\* always holds between 0 and MaxTokens tokens; check allows a request
\* exactly when a token is left after refilling, and takes one; a bucket is
\* refilled only when a refill interval has passed since its last refill;
\* a check for one peer leaves every other peer's bucket as it was.
C36_TokenBucket ==
    [][/\ \A c \in DOMAIN rate_limiter' :
             rate_limiter'[c].tokens >= 0 /\ rate_limiter'[c].tokens <= MaxTokens
       /\ (/\ Len(ipc_messages') = Len(ipc_messages) - 1
           /\ Head(ipc_messages).type = "Request") =>
             LET c       == Head(ipc_messages).client_id
                 known   == c \in DOMAIN rate_limiter
                 due     == known /\ now_mono - rate_limiter[c].last_refill >= RefillInterval
                 tokens  == IF ~known \/ due THEN MaxTokens ELSE rate_limiter[c].tokens
                 allowed == tokens > 0
             IN  /\ c \in DOMAIN rate_limiter'
                 /\ rate_limiter'[c].tokens = IF allowed THEN tokens - 1 ELSE 0
                 /\ rate_limiter'[c].last_refill =
                       IF ~known \/ due THEN now_mono ELSE rate_limiter[c].last_refill
                 /\ allowed <=> last' # "RateLimited"
                 /\ \A d \in DOMAIN rate_limiter : d # c => rate_limiter'[d] = rate_limiter[d]
      ]_vars

\* A request was throttled while another peer's bucket still holds a token.
C36_Witness ==
    /\ last = "RateLimited"
    /\ \E c, d \in DOMAIN rate_limiter :
          c # d /\ rate_limiter[c].tokens = 0 /\ rate_limiter[d].tokens > 0

\* C37: a Graceful stop of a non-snap child sends the soft-kill signal
\* first, sends the hard-kill signal only once the timeout has elapsed and
\* only if the child is then still in the process table (none if the
\* monitor removed the child earlier), and returns after at most the
\* timeout plus one poll interval.
C37_GracefulStop ==
    stop_task.mode = "Graceful" =>
       /\ \A i \in 1..Len(stop_task.signals) :
             stop_task.signals[i].signal = "KILL" =>
                /\ stop_task.signals[i].in_table
                /\ stop_task.elapsed >= stop_task.timeout
                /\ \E j \in 1..(i - 1) : stop_task.signals[j].signal = "TERM"
       /\ stop_task.elapsed <= stop_task.timeout + PollInterval

\* C38: a stop of a handle whose process is already gone succeeds: a call
\* of LinuxHost::stop that has returned for a pid no longer in the process
\* table returned Ok, in either mode, also when it is the second call for
\* the handle.
C38_StopOfGoneProcessSucceeds ==
    (stop_task.pc = "returned" /\ stop_task.pid \notin DOMAIN processes)
       => stop_task.result = "Ok"

\* The Exited events of child pid the monitor has collected or sent.
ExitedEvents(pid) ==
    LET all == monitor_pending \o host_events
    IN  Cardinality({i \in 1..Len(all) : all[i].pid = pid})

\* C39: for every child the monitor emits exactly one Exited event: none
\* while the child is in the process table, one from the poll that finds it
\* exited and removes it from the table, never a second one, and every
\* child that has exited gets its event, also while stop is running.
C39_OneExitedPerChild ==
    /\ [][\A pid \in 1..StopSessions :
            /\ (pid \in DOMAIN processes') => ExitedEvents(pid)' = 0
            /\ (pid \in DOMAIN processes /\ pid \notin DOMAIN processes') =>
                  /\ processes[pid].status = "exited"
                  /\ ExitedEvents(pid)' = 1
            /\ ExitedEvents(pid)' <= 1
            /\ ExitedEvents(pid)' >= ExitedEvents(pid)]_vars
    /\ \A pid \in 1..StopSessions :
          (pid \in DOMAIN processes /\ processes[pid].status = "exited")
             ~> (\E i \in 1..Len(host_events) : host_events[i].pid = pid)

\* The Exited event of a child has been sent while a call of stop for its
\* handle is still in its wait loop.
C39_Witness ==
    /\ stop_task.pc \in {"poll", "sleep"}
    /\ \E i \in 1..Len(host_events) : host_events[i].pid = stop_task.pid
    /\ stop_task.pid \notin DOMAIN processes

\* C40: a store write that fails during stop_current, notify_session_exited,
\* start_session or tick neither rolls back nor blocks the transition.  While
\* the store is out of order, stop_current (for either reason) and
\* notify_session_exited (for every exit status) applied to the running
\* session end it in memory and return the event they return when the
\* writes succeed, and on no session they return nothing; start_session of
\* an approved plan still yields the Launching session and its SessionStarted
\* event.  In every step taken while the store is out of order: an approved
\* launch leaves the session running and broadcasts SessionStarted, a tick
\* that warns records the threshold in the session, a handled exit or stop
\* clears the session and broadcasts SessionEnded with the reason and the
\* duration, and the store itself (usage, cooldowns, audit log) receives
\* nothing.
C40_StoreFailureKeepsTransition ==
    /\ [](store_fails =>
            /\ \A code \in ExitCodes :
                  LET got == notify_session_exited(current_session, code, now_mono, now)
                      ref == IF Active
                             THEN EndSessionWith(FALSE, current_session[1],
                                                 ExitReason(current_session[1], code),
                                                 now_mono, now)
                             ELSE NoEnd(current_session)
                  IN  /\ got.ended = ref.ended
                      /\ got.session = ref.session
                      /\ got.event = ref.event
                      /\ got.ended = Active
            /\ \A reason \in {[kind |-> "UserStop"], [kind |-> "AdminStop"]} :
                  LET got == stop_current(current_session, reason, now_mono, now)
                      ref == IF Active
                             THEN EndSessionWith(FALSE, current_session[1], reason,
                                                 now_mono, now)
                             ELSE NoEnd(current_session)
                  IN  /\ got.ended = ref.ended
                      /\ got.session = ref.session
                      /\ got.event = ref.event
                      /\ got.ended = Active
            /\ \A e \in {"quiz", "free"} :
                  LET d == request_launch(e, now)
                  IN  d.approved =>
                         LET st == start_session(d.plan[1], now, now_mono)
                         IN  /\ Len(st.session) = 1
                             /\ st.session[1].state = "Launching"
                             /\ st.event.type = "SessionStarted"
                             /\ st.event.session_id = d.plan[1].session_id)
    /\ [][store_fails =>
            /\ usage' = usage /\ cooldowns' = cooldowns /\ audited' \in {<<>>, audited}
            /\ (next_id' = next_id + 1 /\ last' = "LaunchApproved") =>
                  /\ Active' /\ ~Active
                  /\ current_session'[1].plan.session_id = next_id'
                  /\ balance' = balance + 1
                  /\ next_id' \in started_broadcast'
            /\ Len(warned') > Len(warned) =>
                  /\ Active'
                  /\ Len(current_session'[1].warnings_issued)
                        > Len(current_session[1].warnings_issued)
            /\ (Active /\ host_events # <<>> /\ host_events' = Tail(host_events)) =>
                  /\ ~Active'
                  /\ balance' = balance - 1
                  /\ end_reason'[current_session[1].plan.session_id]
                        \in {"ProcessExited", "Expired"}
                  /\ end_duration' = duration_so_far(current_session[1], now_mono)
            /\ (Active /\ last' = "Stopped") =>
                  /\ ~Active'
                  /\ balance' = balance - 1
                  /\ end_reason'[current_session[1].plan.session_id]
                        \in {"UserStop", "AdminStop"}
                  /\ end_duration' = duration_so_far(current_session[1], now_mono)]_vars

\* The store is out of order and a session that ran for some time has ended
\* in memory, its usage not credited and no record of it in the audit log.
C40_Witness ==
    /\ store_fails
    /\ ~Active
    /\ next_id = 1
    /\ end_duration > 0
    /\ credits[1] = 1
    /\ \A k \in DOMAIN usage : usage[k] = 0
    /\ audited = <<>>

====
